---- MODULE Spec2Model ----
(***************************************************************************)
(* Kernox: entity factory with object pools, scene-aware collection        *)
(* manager, array-list collections and live collection references.         *)
(*                                                                         *)
(* Resource names are modelled as sequences of dot-free segments:          *)
(* "Players" is <<"Players">>, "a.C" is <<"a","C">>; name.split(".") is    *)
(* the sequence itself and `${ns}.${name}` is <<ns>> \o name.              *)
(* Objects (collection instances, entities, proxies) live in heaps that    *)
(* only grow; an object is identified by its index in its heap.            *)
(***************************************************************************)
EXTENDS Integers, Sequences, FiniteSets, TLC

VARIABLES
    collectionTemplates,  \* qualified name -> constructor (a class: its name and the module defining it)
    sceneCollections,     \* scene name -> (name -> collection instance)
    activeScene,          \* name of the active scene
    insts,                \* heap of ArrayList instances
    types,                \* qualified name -> prototype schema
    pools,                \* type name -> stack of retired entities
    nextID,               \* id of the next freshly allocated entity
    ents,                 \* heap of Entity records
    objs,                 \* heap of the objects and arrays held as attribute values
    wrappers,             \* collection name -> registered proxy
    proxies,              \* heap of CollectionProxy objects
    last,                 \* observer: outcome of the most recent call
    rested,               \* observer: per type, the entities sent to rest and not taken back
    leftScene,            \* observer: per scene, its instances as they were when it was left
    kernox,               \* the application object: paused, started, frame, scheduled frames, systems
    tick,                 \* observer: what the invocations of Kernox.execute did
    call                  \* the activation of a running deepAssign or prototype call, step by step

vars == <<collectionTemplates, sceneCollections, activeScene, insts, types,
          pools, nextID, ents, objs, wrappers, proxies, last, rested, leftScene,
          kernox, tick, call>>

----------------------------------------------------------------------------
(* Bounds and input domains *)

MaxEntities == 2
MaxPooled == 3
MaxAttrEntities == 1
MaxVisitors == 2
MaxRegEntities == 1
MaxNested == 2
MaxObjects == 8
MaxListEntities == 3
MaxProxyEntities == 2
MaxUpdates == 2
MaxProxies == 3
MaxTicks == 3
MaxAmbigEntities == 2
\* objects of an attribute graph
MaxNodes == 2
\* schemas that can name each other as parents
MaxSchemas == 2
\* pending parents that are followed
MaxStack == 4
\* nesting of deepAssign calls that is followed
MaxDepth == 3

Namespaces == <<"a", "b">>
Scenes == {"default", "level1"}
NoKey == <<"?">>

\* attribute keys: two prototype keys (one with an inner underscore) and
\* two keys a user may attach ad hoc (one with a leading underscore)
\* attributes "pos" and "loot" hold an object or array (a reference into
\* objs); every other attribute holds a primitive
IsObject(k) == k \in {"pos", "loot"}
StartsWithUnderscore(k) == k \in {"_tmp"}
IncludesUnderscore(k) == k \in {"_tmp", "max_hp"}

----------------------------------------------------------------------------
(* Maps and ordered sets *)

EmptyMap == [x \in {} |-> 0]
MapSet(f, k, v) == [x \in (DOMAIN f) \cup {k} |-> IF x = k THEN v ELSE f[x]]
MapDel(f, K) == [x \in (DOMAIN f) \ K |-> f[x]]

SeqHas(s, x) == \E i \in 1..Len(s) : s[i] = x
IndexOf(s, x) == IF SeqHas(s, x) THEN CHOOSE i \in 1..Len(s) : s[i] = x /\ \A j \in 1..(i-1) : s[j] # x ELSE 0
RemoveAt(s, i) == SubSeq(s, 1, i-1) \o SubSeq(s, i+1, Len(s))
Range(s) == {s[i] : i \in 1..Len(s)}
LastIndexOf(s, x) == IF SeqHas(s, x) THEN CHOOSE i \in 1..Len(s) : s[i] = x /\ \A j \in (i+1)..Len(s) : s[j] # x ELSE 0
RemoveLast(s, x) == IF SeqHas(s, x) THEN RemoveAt(s, LastIndexOf(s, x)) ELSE s

Qualify(ns, name) == IF ns = "" THEN name ELSE <<ns>> \o name

----------------------------------------------------------------------------
(* Entity: membership set (insertion ordered) and child slots *)

linkTo(e, name) == IF SeqHas(e.colls, name) THEN e ELSE [e EXCEPT !.colls = Append(@, name)]
unlinkFrom(e, name) == [e EXCEPT !.colls = SelectSeq(@, LAMBDA n : n # name)]
deleteChild(e, slot) == [e EXCEPT !.children = MapDel(@, {slot})]
NewEntity(id, type) == [id |-> id, type |-> type, colls |-> <<>>, children |-> EmptyMap, attrs |-> EmptyMap]

----------------------------------------------------------------------------
(* ArrayList *)

NewArrayList(Ctr) == [entities |-> <<>>, changed |-> FALSE, ctor |-> Ctr]
has(c, e) == IndexOf(c.entities, e) # 0

\* the world is the record of all program variables the operations thread through
World == [tpl |-> collectionTemplates, sc |-> sceneCollections, act |-> activeScene,
          insts |-> insts, types |-> types, pools |-> pools, nextID |-> nextID, ents |-> ents,
          objs |-> objs]

\* variant: insert without the membership test
insert_dup(w, c, e) ==
    [w EXCEPT !.insts[c].entities = Append(@, e),
              !.ents[e] = linkTo(@, <<w.insts[c].ctor.name>>),
              !.insts[c].changed = TRUE]

\* ArrayList.insert on instance c of entity e
insert(w, c, e) ==
    IF has(w.insts[c], e) THEN w
    ELSE [w EXCEPT !.insts[c].entities = Append(@, e),
                   !.ents[e] = linkTo(@, <<w.insts[c].ctor.name>>),
                   !.insts[c].changed = TRUE]

\* ArrayList.remove on instance c of entity e
remove(w, c, e) ==
    LET index == IndexOf(w.insts[c].entities, e)
    IN IF index = 0 THEN w
       ELSE [w EXCEPT !.insts[c].entities = RemoveAt(@, index),
                      !.ents[e] = unlinkFrom(@, <<w.insts[c].ctor.name>>),
                      !.insts[c].changed = TRUE]

\* ArrayList.sort: the array is sorted in place; criteria is the order wanted,
\* entities being compared by their position in the heap
sort(w, c, criteria) ==
    [w EXCEPT !.insts[c].entities =
        IF criteria = "ascending" THEN SortSeq(@, LAMBDA a, b : a < b)
        ELSE SortSeq(@, LAMBDA a, b : a > b)]

\* the booleans insert and remove return
insertReturns(w, c, e) == ~has(w.insts[c], e)
removeReturns(w, c, e) == IndexOf(w.insts[c].entities, e) # 0

\* read accessors; indices count from 0 and 0 stands for undefined
size(c) == Len(c.entities)
asArray(c) == c.entities
getAt(c, index) == IF index >= 0 /\ index < Len(c.entities) THEN c.entities[index + 1] ELSE 0
filter(c, criteria) == SelectSeq(c.entities, LAMBDA e : e \in criteria)
changed(c) == c.changed
\* *[Symbol.iterator]: the entities in order
iterate(c) == c.entities

----------------------------------------------------------------------------
(* Namespace resolution: the loop shared by the three resolvers.  keys is   *)
(* the key set of the map searched; the result names the key found.        *)

RECURSIVE ResolveLoop(_, _, _, _)
ResolveLoop(keys, name, i, resolved) ==
    IF i > Len(Namespaces) THEN [err |-> FALSE, key |-> resolved]
    ELSE LET k == Qualify(Namespaces[i], name)
         IN IF k \in keys /\ resolved = NoKey THEN ResolveLoop(keys, name, i+1, k)
            ELSE IF k \in keys THEN [err |-> TRUE, key |-> NoKey]
            ELSE ResolveLoop(keys, name, i+1, resolved)

resolveImplicitNamespace(w, name, scene) ==
    IF scene \notin DOMAIN w.sc THEN [err |-> FALSE, key |-> NoKey]
    ELSE ResolveLoop(DOMAIN w.sc[scene], name, 1, NoKey)

resolveTemplateNamespace(w, name) == ResolveLoop(DOMAIN w.tpl, name, 1, NoKey)

\* variant: the first namespace that has the type is taken, without looking further
resolveTypeNamespace_first(w, type) ==
    LET hits == {i \in 1..Len(Namespaces) : Qualify(Namespaces[i], type) \in DOMAIN w.types}
    IN IF hits = {} THEN [err |-> FALSE, key |-> NoKey]
       ELSE [err |-> FALSE,
             key |-> Qualify(Namespaces[CHOOSE i \in hits : \A j \in hits : i <= j], type)]

resolveTypeNamespace(w, type) == ResolveLoop(DOMAIN w.types, type, 1, NoKey)

----------------------------------------------------------------------------
(* CollectionManager *)

Ret(w, err, val) == [w |-> w, err |-> err, val |-> val]

ensureCollectionInScene(w, name, Ctr) ==
    LET w1 == IF w.act \in DOMAIN w.sc THEN w ELSE [w EXCEPT !.sc = MapSet(@, w.act, EmptyMap)]
    IN IF name \in DOMAIN w1.sc[w1.act] THEN Ret(w1, "none", w1.sc[w1.act][name])
       ELSE Ret([w1 EXCEPT !.insts = Append(@, NewArrayList(Ctr)),
                           !.sc[w1.act] = MapSet(@, name, Len(w1.insts) + 1)],
                "none", Len(w1.insts) + 1)

\* variant: the instance is constructed before the template lookup can fail
get_eager(w, name) ==
    LET hasScene == w.act \in DOMAIN w.sc
        r1 == resolveImplicitNamespace(w, name, w.act)
        r2 == resolveTemplateNamespace(w, name)
    IN IF hasScene /\ name \in DOMAIN w.sc[w.act] THEN Ret(w, "none", w.sc[w.act][name])
       ELSE IF hasScene /\ r1.err THEN Ret(w, "ambiguous_collection", 0)
       ELSE IF hasScene /\ r1.key # NoKey THEN Ret(w, "none", w.sc[w.act][r1.key])
       ELSE IF name \in DOMAIN w.tpl THEN ensureCollectionInScene(w, name, w.tpl[name])
       ELSE IF r2.err THEN Ret(w, "ambiguous_template", 0)
       ELSE IF r2.key = NoKey
            THEN Ret([w EXCEPT !.insts = Append(@, NewArrayList([name |-> "", module |-> ""]))],
                     "not_registered", 0)
       ELSE ensureCollectionInScene(w, name, w.tpl[r2.key])

get(w, name) ==
    LET hasScene == w.act \in DOMAIN w.sc
        r1 == resolveImplicitNamespace(w, name, w.act)
        r2 == resolveTemplateNamespace(w, name)
    IN IF hasScene /\ name \in DOMAIN w.sc[w.act] THEN Ret(w, "none", w.sc[w.act][name])
       ELSE IF hasScene /\ r1.err THEN Ret(w, "ambiguous_collection", 0)
       ELSE IF hasScene /\ r1.key # NoKey THEN Ret(w, "none", w.sc[w.act][r1.key])
       ELSE IF name \in DOMAIN w.tpl THEN ensureCollectionInScene(w, name, w.tpl[name])
       ELSE IF r2.err THEN Ret(w, "ambiguous_template", 0)
       ELSE IF r2.key = NoKey THEN Ret(w, "not_registered", 0)
       ELSE ensureCollectionInScene(w, name, w.tpl[r2.key])

\* variant: a duplicate registration replaces the stored template before failing
use_overwrite(w, Ctr, namespace) ==
    LET name == Qualify(namespace, <<Ctr.name>>)
    IN IF name \in DOMAIN w.tpl THEN Ret([w EXCEPT !.tpl = MapSet(@, name, Ctr)], "duplicate_collection", 0)
       ELSE LET w1 == [w EXCEPT !.tpl = MapSet(@, name, Ctr)]
            IN IF w1.act = "default" THEN Ret(ensureCollectionInScene(w1, name, Ctr).w, "none", 0)
               ELSE Ret(w1, "none", 0)

use(w, Ctr, namespace) ==
    LET name == Qualify(namespace, <<Ctr.name>>)
    IN IF name \in DOMAIN w.tpl THEN Ret(w, "duplicate_collection", 0)
       ELSE LET w1 == [w EXCEPT !.tpl = MapSet(@, name, Ctr)]
            IN IF w1.act = "default" THEN Ret(ensureCollectionInScene(w1, name, Ctr).w, "none", 0)
               ELSE Ret(w1, "none", 0)

\* variant: the collection is looked up in the default scene whatever scene is active
addEntityTo_default(w, e, name) ==
    LET r == get([w EXCEPT !.act = "default"], name)
    IN IF r.err # "none" THEN Ret(w, r.err, 0)
       ELSE LET w1 == insert([r.w EXCEPT !.act = w.act], r.val, e)
            IN Ret([w1 EXCEPT !.ents[e] = linkTo(@, name)], "none", 0)

addEntityTo(w, e, name) ==
    LET r == get(w, name)
    IN IF r.err # "none" THEN Ret(r.w, r.err, 0)
       ELSE LET w1 == insert(r.w, r.val, e)
            IN Ret([w1 EXCEPT !.ents[e] = linkTo(@, name)], "none", 0)

removeEntityFrom(w, e, name) ==
    LET r == get(w, name)
    IN IF r.err # "none" THEN Ret(r.w, r.err, 0)
       ELSE LET w1 == remove(r.w, r.val, e)
            IN Ret([w1 EXCEPT !.ents[e] = unlinkFrom(@, name)], "none", 0)

RECURSIVE InstantiateAll(_, _, _)
InstantiateAll(w, scene, names) ==
    IF names = {} THEN w
    ELSE LET n == CHOOSE x \in names : TRUE
             w1 == IF n \in DOMAIN w.sc[scene] THEN w
                   ELSE [w EXCEPT !.insts = Append(@, NewArrayList(w.tpl[n])),
                                  !.sc[scene] = MapSet(@, n, Len(w.insts) + 1)]
         IN InstantiateAll(w1, scene, names \ {n})

\* variant: a switch to the active scene also instantiates the missing templates
switchScene_refill(w, sceneName) ==
    LET w1 == IF sceneName \in DOMAIN w.sc THEN w ELSE [w EXCEPT !.sc = MapSet(@, sceneName, EmptyMap)]
        w2 == InstantiateAll(w1, sceneName, DOMAIN w1.tpl)
    IN [w2 EXCEPT !.act = sceneName]

\* variant: every template is instantiated anew on each switch
switchScene_fresh(w, sceneName) ==
    IF sceneName = w.act THEN w
    ELSE LET w1 == [w EXCEPT !.sc = MapSet(@, sceneName, EmptyMap)]
             w2 == InstantiateAll(w1, sceneName, DOMAIN w1.tpl)
         IN [w2 EXCEPT !.act = sceneName]

switchScene(w, sceneName) ==
    IF sceneName = w.act THEN w
    ELSE LET w1 == IF sceneName \in DOMAIN w.sc THEN w ELSE [w EXCEPT !.sc = MapSet(@, sceneName, EmptyMap)]
             w2 == InstantiateAll(w1, sceneName, DOMAIN w1.tpl)
         IN [w2 EXCEPT !.act = sceneName]

getActiveScene(w) == w.act

----------------------------------------------------------------------------
(* EntityFactory *)

\* deepAssign: every key of the prototype is written onto the recipient, other
\* keys are left alone.  A primitive is copied; an object or array is replaced
\* by a new one that receives a copy of its content, unless the same object
\* was already met during this call (seen), and then the new one stays empty.
RECURSIVE DeepLoop(_, _, _, _, _)
DeepLoop(heap, recipient, prototype, keys, seen) ==
    IF keys = {} THEN [objs |-> heap, attrs |-> recipient]
    ELSE LET key == CHOOSE k \in keys : TRUE
             value == prototype[key]
         IN IF ~IsObject(key)
            THEN DeepLoop(heap, MapSet(recipient, key, value), prototype, keys \ {key}, seen)
            ELSE DeepLoop(Append(heap, IF value \in seen THEN <<>> ELSE heap[value]),
                          MapSet(recipient, key, Len(heap) + 1), prototype, keys \ {key},
                          seen \cup {value})

\* variant: Object.assign, object values are copied by reference
deepAssign_shallow(heap, recipient, prototype) ==
    [objs |-> heap,
     attrs |-> [k \in (DOMAIN recipient) \cup (DOMAIN prototype) |->
                   IF k \in DOMAIN prototype THEN prototype[k] ELSE recipient[k]]]

deepAssign(heap, recipient, prototype) == DeepLoop(heap, recipient, prototype, DOMAIN prototype, {})

\* ordered union of two collection sequences (new Set([...a, ...b]))
RECURSIVE SetUnion(_, _)
SetUnion(a, b) ==
    IF b = <<>> THEN a
    ELSE SetUnion(IF SeqHas(a, Head(b)) THEN a ELSE Append(a, Head(b)), Tail(b))

\* variant: the parents are merged in declared order, first parent first
RECURSIVE InheritLoop_fifo(_, _, _)
InheritLoop_fifo(heap, proto, stack) ==
    IF stack = <<>> THEN [objs |-> heap, proto |-> proto]
    ELSE LET current == Head(stack)
             t1 == deepAssign(heap, EmptyMap, current.attributes)
             temp == deepAssign(t1.objs, t1.attrs, proto.attributes)
         IN InheritLoop_fifo(temp.objs,
                             [proto EXCEPT !.attributes = temp.attrs,
                                           !.collections = SetUnion(proto.collections, current.collections)],
                             Tail(stack) \o current.inherits)

\* variant: only the parents listed by the schema itself are merged
RECURSIVE InheritLoop_direct(_, _, _)
InheritLoop_direct(heap, proto, stack) ==
    IF stack = <<>> THEN [objs |-> heap, proto |-> proto]
    ELSE LET current == stack[Len(stack)]
             t1 == deepAssign(heap, EmptyMap, current.attributes)
             temp == deepAssign(t1.objs, t1.attrs, proto.attributes)
         IN InheritLoop_direct(temp.objs,
                               [proto EXCEPT !.attributes = temp.attrs,
                                             !.collections = SetUnion(proto.collections, current.collections)],
                               SubSeq(stack, 1, Len(stack) - 1))

\* the inheritance loop of prototype(): the stack holds the pending parents
RECURSIVE InheritLoop(_, _, _)
InheritLoop(heap, proto, stack) ==
    IF stack = <<>> THEN [objs |-> heap, proto |-> proto]
    ELSE LET current == stack[Len(stack)]
             t1 == deepAssign(heap, EmptyMap, current.attributes)
             temp == deepAssign(t1.objs, t1.attrs, proto.attributes)
         IN InheritLoop(temp.objs,
                        [proto EXCEPT !.attributes = temp.attrs,
                                      !.collections = SetUnion(proto.collections, current.collections)],
                        SubSeq(stack, 1, Len(stack) - 1) \o current.inherits)

prototype(w, schema, namespace) ==
    LET name == Qualify(namespace, schema.name)
    IN IF name \in DOMAIN w.types THEN Ret(w, "duplicate_type", 0)
       ELSE LET m == InheritLoop(w.objs, schema, schema.inherits)
            IN Ret([w EXCEPT !.types = MapSet(@, name, m.proto), !.objs = m.objs], "none", 0)

resetEntityState(heap, e, proto) ==
    LET custom == {k \in DOMAIN e.attrs : ~StartsWithUnderscore(k) /\ k \notin DOMAIN proto.attributes}
        a == deepAssign(heap, MapDel(e.attrs, custom), proto.attributes)
    IN [objs |-> a.objs,
        e |-> [e EXCEPT !.attrs = a.attrs, !.children = EmptyMap, !.colls = <<>>]]

\* for(const param of Object.keys(params)) if(param in entity && !param.includes("_")) ...
applyParams(attrs, params) ==
    [k \in DOMAIN attrs |->
        IF k \in DOMAIN params /\ ~IncludesUnderscore(k) THEN params[k] ELSE attrs[k]]

\* the collection loop of create(): collections[i..] still to be joined
RECURSIVE AssignLoop(_, _, _, _, _)
AssignLoop(w, e, collections, context, i) ==
    IF i > Len(collections) THEN Ret(w, "none", e)
    ELSE LET collection == Qualify(context, collections[i])
             r == addEntityTo(w, e, collection)
         IN IF r.err # "none" THEN Ret(r.w, r.err, e)
            ELSE AssignLoop([r.w EXCEPT !.ents[e] = linkTo(@, collection)], e, collections, context, i + 1)

popsPool(w, type) == type \in DOMAIN w.pools /\ Len(w.pools[type]) > 0

\* variant: the pool is used as a queue (oldest retired entity first)
create_fifo(w, type, params) ==
    LET r == resolveTypeNamespace(w, type)
    IN IF type \notin DOMAIN w.types /\ r.err THEN Ret(w, "ambiguous_type", 0)
       ELSE IF type \notin DOMAIN w.types /\ r.key = NoKey THEN Ret(w, "null_type", 0)
       ELSE LET proto == w.types[IF type \in DOMAIN w.types THEN type ELSE r.key]
                e == IF popsPool(w, type) THEN w.pools[type][1] ELSE Len(w.ents) + 1
                reset == resetEntityState(w.objs, w.ents[e], proto)
                fresh == deepAssign(w.objs, EmptyMap, proto.attributes)
                w1 == IF popsPool(w, type)
                      THEN [w EXCEPT !.pools[type] = Tail(@),
                                     !.ents[e] = reset.e, !.objs = reset.objs]
                      ELSE [w EXCEPT !.ents = Append(@, [NewEntity(w.nextID, type) EXCEPT
                                                            !.attrs = fresh.attrs]),
                                     !.objs = fresh.objs,
                                     !.nextID = @ + 1]
                w2 == [w1 EXCEPT !.ents[e].attrs = applyParams(@, params)]
                context == IF Len(type) = 2 THEN type[1] ELSE ""
            IN AssignLoop(w2, e, proto.collections, context, 1)

\* variant: a fresh entity takes the current counter value without advancing it
create_sameid(w, type, params) ==
    LET r == resolveTypeNamespace(w, type)
    IN IF type \notin DOMAIN w.types /\ r.err THEN Ret(w, "ambiguous_type", 0)
       ELSE IF type \notin DOMAIN w.types /\ r.key = NoKey THEN Ret(w, "null_type", 0)
       ELSE LET proto == w.types[IF type \in DOMAIN w.types THEN type ELSE r.key]
                e == IF popsPool(w, type) THEN w.pools[type][Len(w.pools[type])] ELSE Len(w.ents) + 1
                reset == resetEntityState(w.objs, w.ents[e], proto)
                fresh == deepAssign(w.objs, EmptyMap, proto.attributes)
                w1 == IF popsPool(w, type)
                      THEN [w EXCEPT !.pools[type] = SubSeq(@, 1, Len(@) - 1),
                                     !.ents[e] = reset.e, !.objs = reset.objs]
                      ELSE [w EXCEPT !.ents = Append(@, [NewEntity(w.nextID, type) EXCEPT
                                                            !.attrs = fresh.attrs]),
                                     !.objs = fresh.objs]
                w2 == [w1 EXCEPT !.ents[e].attrs = applyParams(@, params)]
                context == IF Len(type) = 2 THEN type[1] ELSE ""
            IN AssignLoop(w2, e, proto.collections, context, 1)

create(w, type, params) ==
    LET r == resolveTypeNamespace(w, type)
    IN IF type \notin DOMAIN w.types /\ r.err THEN Ret(w, "ambiguous_type", 0)
       ELSE IF type \notin DOMAIN w.types /\ r.key = NoKey THEN Ret(w, "null_type", 0)
       ELSE LET proto == w.types[IF type \in DOMAIN w.types THEN type ELSE r.key]
                e == IF popsPool(w, type) THEN w.pools[type][Len(w.pools[type])] ELSE Len(w.ents) + 1
                reset == resetEntityState(w.objs, w.ents[e], proto)
                fresh == deepAssign(w.objs, EmptyMap, proto.attributes)
                w1 == IF popsPool(w, type)
                      THEN [w EXCEPT !.pools[type] = SubSeq(@, 1, Len(@) - 1),
                                     !.ents[e] = reset.e, !.objs = reset.objs]
                      ELSE [w EXCEPT !.ents = Append(@, [NewEntity(w.nextID, type) EXCEPT
                                                            !.attrs = fresh.attrs]),
                                     !.objs = fresh.objs,
                                     !.nextID = @ + 1]
                w2 == [w1 EXCEPT !.ents[e].attrs = applyParams(@, params)]
                context == IF Len(type) = 2 THEN type[1] ELSE ""
            IN AssignLoop(w2, e, proto.collections, context, 1)

\* the collection loop of sendToRest() over the snapshot of the membership set
RECURSIVE RestLoop(_, _, _, _)
RestLoop(w, e, collections, i) ==
    IF i > Len(collections) THEN Ret(w, "none", 0)
    ELSE LET r == removeEntityFrom(w, e, collections[i])
         IN IF r.err # "none" THEN r
            ELSE RestLoop([r.w EXCEPT !.ents[e] = unlinkFrom(@, collections[i])], e, collections, i + 1)

sendToRest(w, e) ==
    LET type == w.ents[e].type
        r == RestLoop(w, e, w.ents[e].colls, 1)
    IN IF r.err # "none" THEN r
       ELSE LET w1 == IF type \in DOMAIN r.w.pools THEN r.w ELSE [r.w EXCEPT !.pools = MapSet(@, type, <<>>)]
            IN Ret([w1 EXCEPT !.pools[type] = Append(@, e)], "none", 0)

----------------------------------------------------------------------------
(* CollectionProxy and the registry of live references *)

NewProxy(w, name, c) == [name |-> name, collection |-> c, changed |-> w.insts[c].changed, updates |-> 0]

\* variant: the registry keeps the association
unregisterWrapper_keep(wr, p) == wr

\* the registry forgets every name associated with proxy p
unregisterWrapper(wr, p) == [n \in {m \in DOMAIN wr : wr[m] # p} |-> wr[n]]

updateInternalState(px, p, heap) == [px EXCEPT ![p].changed = heap[px[p].collection].changed]

\* variant: the callback fires but the reference stays where it was
updateCollection_stale(px, p, heap, newCollection) ==
    [updateInternalState(px, p, heap) EXCEPT ![p].updates = @ + 1]

\* updates counts the invocations of the update callback with this proxy
updateCollection(px, p, heap, newCollection) ==
    [updateInternalState([px EXCEPT ![p].collection = newCollection], p, heap) EXCEPT ![p].updates = @ + 1]

\* proxied calls and reads
proxyInsert(w, px, p, e) ==
    LET w1 == insert(w, px[p].collection, e)
    IN [w |-> w1, px |-> updateInternalState(px, p, w1.insts), val |-> insertReturns(w, px[p].collection, e)]
proxyRemove(w, px, p, e) ==
    LET w1 == remove(w, px[p].collection, e)
    IN [w |-> w1, px |-> updateInternalState(px, p, w1.insts), val |-> removeReturns(w, px[p].collection, e)]
proxyHas(px, p, heap, e) == has(heap[px[p].collection], e)
proxySize(px, p, heap) == size(heap[px[p].collection])
proxyAsArray(px, p, heap) == asArray(heap[px[p].collection])
proxyGet(px, p, heap, index) == getAt(heap[px[p].collection], index)
proxyFilter(px, p, heap, criteria) == filter(heap[px[p].collection], criteria)
\* variant: the flag copied at the last refresh is returned
proxyChanged_cached(px, p, heap) == px[p].changed

proxyChanged(px, p, heap) == updateInternalState(px, p, heap)[p].changed
proxyIterate(px, p, heap) == iterate(heap[px[p].collection])

\* variant: every live reference is rebound, whatever its name
notifyWrappers_all(wr, px, heap, name, newInstance) ==
    [p \in 1..Len(px) |-> updateCollection(px, p, heap, newInstance)[p]]

\* the live reference registered under the name, if there is one, is rebound
\* to the instance through its updateCollection
notifyWrappers(wr, px, heap, name, newInstance) ==
    IF name \in DOMAIN wr THEN updateCollection(px, wr[name], heap, newInstance) ELSE px

getSmartWrapper(w, wr, px, name) ==
    IF name \in DOMAIN wr THEN [w |-> w, wr |-> wr, px |-> px, err |-> "none", val |-> wr[name]]
    ELSE LET r == get(w, name)
         IN IF r.err # "none" THEN [w |-> r.w, wr |-> wr, px |-> px, err |-> r.err, val |-> 0]
            ELSE [w |-> r.w, wr |-> MapSet(wr, name, Len(px) + 1),
                  px |-> Append(px, NewProxy(r.w, name, r.val)), err |-> "none", val |-> Len(px) + 1]

----------------------------------------------------------------------------
(* Observers *)

NoTwin == [attrs |-> EmptyMap, children |-> EmptyMap, colls |-> <<>>]
\* op, err: the call and its error ("none" when it returned); name, ent, params: its arguments
\* or result; recycled: create took the entity from a pool; visit: kind of scene switch;
\* instsBefore: number of collection instances before the call; twin: the entity a create
\* with the same arguments allocates in the same state when the pools are empty;
\* schema: the schema handed to prototype; arg: the collection instance or proxy a
\* direct call was made on; ret: the boolean a direct insert or remove returned
Outcome(op, err, name, ent, recycled, params) ==
    [op |-> op, err |-> err, name |-> name, ent |-> ent, recycled |-> recycled, params |-> params,
     visit |-> "", instsBefore |-> Len(insts), twin |-> NoTwin, schema |-> EmptyMap,
     arg |-> 0, ret |-> FALSE, context |-> "", resource |-> <<>>]

\* the instances of a scene with their contents
SceneView(w, s) == [n \in DOMAIN w.sc[s] |-> [inst |-> w.sc[s][n], obj |-> w.insts[w.sc[s][n]]]]

InPool(e) == \E t \in DOMAIN pools : SeqHas(pools[t], e)
Live == {e \in 1..Len(ents) : ~InPool(e)}

Commit(w) ==
    /\ collectionTemplates' = w.tpl
    /\ sceneCollections' = w.sc
    /\ activeScene' = w.act
    /\ insts' = w.insts
    /\ types' = w.types
    /\ pools' = w.pools
    /\ nextID' = w.nextID
    /\ ents' = w.ents
    /\ objs' = w.objs

Holds(w) ==
    /\ collectionTemplates = w.tpl
    /\ sceneCollections = w.sc
    /\ activeScene = w.act
    /\ insts = w.insts
    /\ types = w.types
    /\ pools = w.pools
    /\ nextID = w.nextID
    /\ ents = w.ents
    /\ objs = w.objs

----------------------------------------------------------------------------
(* Kernox: the execution loop *)

\* the systems of the application, in the order the addon lists them
Systems == <<"InputSystem", "RenderSystem">>

\* new Kernox(): not paused, not started, frame 0; pending counts the
\* animation-frame callbacks requested and not yet run
NewKernox ==
    [paused |-> FALSE, started |-> FALSE, frame |-> 0, pending |-> 0,
     sysPaused |-> [s \in Range(Systems) |-> FALSE]]

\* SystemManager.execute: the systems that are not paused run in order;
\* throwAt names the system whose execute throws ("none": no system throws).
\* ran lists the systems whose execute was entered.
systemManagerExecute(k, throwAt) ==
    LET active == SelectSeq(Systems, LAMBDA s : ~k.sysPaused[s])
        upto == IF SeqHas(active, throwAt) THEN IndexOf(active, throwAt) ELSE Len(active)
    IN [ran |-> SubSeq(active, 1, upto), threw |-> SeqHas(active, throwAt)]

\* variant: the frame is counted before the systems run
execute_count_first(k, startThrows, throwAt) ==
    LET first == ~k.started
        k1 == IF first THEN [k EXCEPT !.started = TRUE] ELSE k
        ev == IF first THEN <<"__start">> ELSE <<>>
    IN IF first /\ startThrows
       THEN [k |-> [k1 EXCEPT !.paused = TRUE], events |-> ev, sysThrew |-> FALSE]
       ELSE IF k1.paused
       THEN [k |-> k1, events |-> ev, sysThrew |-> FALSE]
       ELSE LET k2 == [k1 EXCEPT !.pending = @ + 1, !.frame = @ + 1]
                r == systemManagerExecute(k2, throwAt)
            IN IF r.threw
               THEN [k |-> [k2 EXCEPT !.paused = TRUE], events |-> ev \o r.ran, sysThrew |-> TRUE]
               ELSE [k |-> k2, events |-> ev \o r.ran, sysThrew |-> FALSE]

\* variant: the started flag is never raised
execute_restart(k, startThrows, throwAt) ==
    LET ev == <<"__start">>
    IN IF startThrows
       THEN [k |-> [k EXCEPT !.paused = TRUE], events |-> ev, sysThrew |-> FALSE]
       ELSE IF k.paused
       THEN [k |-> k, events |-> ev, sysThrew |-> FALSE]
       ELSE LET k2 == [k EXCEPT !.pending = @ + 1]
                r == systemManagerExecute(k2, throwAt)
            IN IF r.threw
               THEN [k |-> [k2 EXCEPT !.paused = TRUE], events |-> ev \o r.ran, sysThrew |-> TRUE]
               ELSE [k |-> [k2 EXCEPT !.frame = @ + 1], events |-> ev \o r.ran, sysThrew |-> FALSE]

\* Kernox.execute: the whole body is inside try/catch. On the first call the
\* started flag is raised and "__start" dispatched (a listener may throw);
\* a paused application returns; otherwise the next frame is requested, the
\* systems run, and the frame is counted. The catch block sets paused.
\* events lists what was dispatched and which systems were entered.
execute(k, startThrows, throwAt) ==
    LET first == ~k.started
        k1 == IF first THEN [k EXCEPT !.started = TRUE] ELSE k
        ev == IF first THEN <<"__start">> ELSE <<>>
    IN IF first /\ startThrows
       THEN [k |-> [k1 EXCEPT !.paused = TRUE], events |-> ev, sysThrew |-> FALSE]
       ELSE IF k1.paused
       THEN [k |-> k1, events |-> ev, sysThrew |-> FALSE]
       ELSE LET k2 == [k1 EXCEPT !.pending = @ + 1]
                r == systemManagerExecute(k2, throwAt)
            IN IF r.threw
               THEN [k |-> [k2 EXCEPT !.paused = TRUE], events |-> ev \o r.ran, sysThrew |-> TRUE]
               ELSE [k |-> [k2 EXCEPT !.frame = @ + 1], events |-> ev \o r.ran, sysThrew |-> FALSE]

\* variant: the context of the system is never put in front of the name
resolveResourceName_asGiven(context, resourceName) == resourceName

\* System.resolveResourceName: a name of exactly two segments carries its own
\* context; any other name gets the context of the system in front of it,
\* unless that context is the empty string
resolveResourceName(context, resourceName) ==
    LET two == Len(resourceName) = 2
        ctx == IF two THEN resourceName[1] ELSE context
        baseName == IF two THEN <<resourceName[2]>> ELSE resourceName
    IN IF ctx # "" THEN <<ctx>> \o baseName ELSE resourceName

\* System.getCollection: the resolved name is handed to CollectionManager.get,
\* whose errors pass through
getCollection(w, context, collectionName) ==
    get(w, resolveResourceName(context, collectionName))

\* System.attachToEvent: the name handed to the event broker
attachToEvent(context, eventName) == resolveResourceName(context, eventName)

\* observer of the invocations of execute: everything dispatched or run so
\* far, the number of invocations, what the latest one did, and whether a
\* system had thrown before the latest one began
\* no call is being followed step by step
NoCall == [op |-> "none", graph |-> <<>>, out |-> <<>>, stack |-> <<>>, seen |-> {}]

NoTick == [log |-> <<>>, count |-> 0, events |-> <<>>, sysThrew |-> FALSE, thrownBefore |-> FALSE]

Observe(r) ==
    [log |-> tick.log \o r.events, count |-> tick.count + 1, events |-> r.events,
     sysThrew |-> r.sysThrew, thrownBefore |-> tick.thrownBefore \/ tick.sysThrew]

----------------------------------------------------------------------------
(* Initial state: new Kernox() *)

Init ==
    /\ collectionTemplates = EmptyMap
    /\ sceneCollections = [s \in {"default"} |-> EmptyMap]
    /\ activeScene = "default"
    /\ insts = <<>>
    /\ types = EmptyMap
    /\ pools = EmptyMap
    /\ nextID = 0
    /\ ents = <<>>
    /\ objs = <<>>
    /\ wrappers = EmptyMap
    /\ proxies = <<>>
    /\ last = Outcome("init", "none", <<>>, 0, FALSE, EmptyMap)
    /\ rested = EmptyMap
    /\ leftScene = EmptyMap
    /\ kernox = NewKernox
    /\ tick = NoTick
    /\ call = NoCall

----------------------------------------------------------------------------
(* Actions: one per public operation *)

Use(Ctr, namespace) ==
    LET r == use(World, Ctr, namespace)
    IN /\ Commit(r.w)
       /\ last' = Outcome("use", r.err, Qualify(namespace, <<Ctr.name>>), 0, FALSE, EmptyMap)
       /\ UNCHANGED <<call, kernox, tick, wrappers, proxies, rested, leftScene>>

Prototype(schema, namespace) ==
    LET r == prototype(World, schema, namespace)
    IN /\ Commit(r.w)
       /\ last' = [Outcome("prototype", r.err, Qualify(namespace, schema.name), 0, FALSE, EmptyMap)
                       EXCEPT !.schema = schema]
       /\ UNCHANGED <<call, kernox, tick, wrappers, proxies, rested, leftScene>>

Get(name) ==
    LET r == get(World, name)
    IN /\ Commit(r.w)
       /\ last' = Outcome("get", r.err, name, r.val, FALSE, EmptyMap)
       /\ UNCHANGED <<call, kernox, tick, wrappers, proxies, rested, leftScene>>

SwitchScene(sceneName) ==
    /\ Commit(switchScene(World, sceneName))
    /\ last' = [Outcome("switchScene", "none", <<sceneName>>, 0, FALSE, EmptyMap) EXCEPT
                    !.visit = IF sceneName = activeScene THEN "same"
                              ELSE IF sceneName \in DOMAIN sceneCollections THEN "repeat" ELSE "first"]
    /\ leftScene' = IF sceneName = activeScene THEN leftScene
                    ELSE MapSet(leftScene, activeScene, SceneView(World, activeScene))
    /\ UNCHANGED <<call, kernox, tick, wrappers, proxies, rested>>

AddEntityTo(e, name) ==
    LET r == addEntityTo(World, e, name)
    IN /\ Commit(r.w)
       /\ last' = Outcome("addEntityTo", r.err, name, e, FALSE, EmptyMap)
       /\ UNCHANGED <<call, kernox, tick, wrappers, proxies, rested, leftScene>>

RemoveEntityFrom(e, name) ==
    LET r == removeEntityFrom(World, e, name)
    IN /\ Commit(r.w)
       /\ last' = Outcome("removeEntityFrom", r.err, name, e, FALSE, EmptyMap)
       /\ UNCHANGED <<call, kernox, tick, wrappers, proxies, rested, leftScene>>

Create(type, params, cap) ==
    LET r == create(World, type, params)
        took == r.val # 0 /\ popsPool(World, type)
        f == create([World EXCEPT !.pools = EmptyMap], type, params)
        twin == IF f.val = 0 THEN NoTwin
                ELSE [attrs |-> f.w.ents[f.val].attrs, children |-> f.w.ents[f.val].children,
                      colls |-> f.w.ents[f.val].colls]
    IN /\ r.w.nextID <= cap
       /\ Len(r.w.objs) <= MaxObjects
       /\ Commit(r.w)
       /\ last' = [Outcome("create", r.err, type, r.val, took, params) EXCEPT !.twin = twin]
       /\ rested' = IF took /\ type \in DOMAIN rested /\ SeqHas(rested[type], r.val)
                    THEN [rested EXCEPT ![type] = RemoveLast(@, r.val)] ELSE rested
       /\ UNCHANGED <<call, kernox, tick, wrappers, proxies, leftScene>>

SendToRest(e) ==
    LET r == sendToRest(World, e)
        type == ents[e].type
    IN /\ Commit(r.w)
       /\ last' = Outcome("sendToRest", r.err, type, e, FALSE, EmptyMap)
       /\ rested' = IF r.err # "none" THEN rested
                    ELSE MapSet(rested, type, Append(IF type \in DOMAIN rested THEN rested[type] ELSE <<>>, e))
       /\ UNCHANGED <<call, kernox, tick, wrappers, proxies, leftScene>>

\* user code writing an attribute of an entity it holds
SetAttr(e, k, v) ==
    /\ ents' = [ents EXCEPT ![e].attrs = MapSet(@, k, v)]
    /\ last' = Outcome("setAttr", "none", <<k>>, e, FALSE, EmptyMap)
    /\ UNCHANGED <<call, kernox, tick, collectionTemplates, sceneCollections, activeScene, insts, types, pools, nextID,
                   objs, wrappers, proxies, rested, leftScene>>

\* user code changing an object or array attribute in place: entity.pos.x = ...,
\* entity.loot.push(...) / entity.loot.pop()
MutateObject(e, k) ==
    /\ k \in DOMAIN ents[e].attrs /\ IsObject(k)
    /\ objs' = [objs EXCEPT ![ents[e].attrs[k]] =
                   IF k = "pos" THEN [x |-> 1 - @.x]
                   ELSE IF Len(@) < 3 THEN Append(@, "Gem") ELSE SubSeq(@, 1, Len(@) - 1)]
    /\ last' = Outcome("mutate", "none", <<k>>, e, FALSE, EmptyMap)
    /\ UNCHANGED <<call, kernox, tick, collectionTemplates, sceneCollections, activeScene, insts, types, pools, nextID,
                   ents, wrappers, proxies, rested, leftScene>>

\* Entity.appendChild(slot, child)
AppendChild(e, slot, child) ==
    /\ ents' = IF slot \in DOMAIN ents[e].children THEN ents
               ELSE [ents EXCEPT ![e].children = MapSet(@, slot, child)]
    /\ last' = Outcome("appendChild", IF slot \in DOMAIN ents[e].children THEN "duplicate_child" ELSE "none",
                       <<slot>>, e, FALSE, EmptyMap)
    /\ UNCHANGED <<call, kernox, tick, collectionTemplates, sceneCollections, activeScene, insts, types, pools, nextID,
                   objs, wrappers, proxies, rested, leftScene>>

\* direct calls on a collection instance or on a proxy
ListInsert(c, e) ==
    /\ Commit(insert(World, c, e))
    /\ last' = [Outcome("insert", "none", <<>>, e, FALSE, EmptyMap) EXCEPT
                    !.arg = c, !.ret = insertReturns(World, c, e)]
    /\ UNCHANGED <<call, kernox, tick, wrappers, proxies, rested, leftScene>>

ListRemove(c, e) ==
    /\ Commit(remove(World, c, e))
    /\ last' = [Outcome("remove", "none", <<>>, e, FALSE, EmptyMap) EXCEPT
                    !.arg = c, !.ret = removeReturns(World, c, e)]
    /\ UNCHANGED <<call, kernox, tick, wrappers, proxies, rested, leftScene>>

ListSort(c, criteria) ==
    /\ Commit(sort(World, c, criteria))
    /\ last' = [Outcome("sort", "none", <<criteria>>, 0, FALSE, EmptyMap) EXCEPT !.arg = c]
    /\ UNCHANGED <<call, kernox, tick, wrappers, proxies, rested, leftScene>>

\* a consumer that has looked at the flag clears it: (collection as any).__changed = false
ResetChanged(c) ==
    /\ insts' = [insts EXCEPT ![c].changed = FALSE]
    /\ last' = [Outcome("resetChanged", "none", <<>>, 0, FALSE, EmptyMap) EXCEPT !.arg = c]
    /\ UNCHANGED <<call, kernox, tick, collectionTemplates, sceneCollections, activeScene, types, pools, nextID,
                   ents, objs, wrappers, proxies, rested, leftScene, call>>

ProxyInsert(p, e) ==
    LET r == proxyInsert(World, proxies, p, e)
    IN /\ Commit(r.w)
       /\ proxies' = r.px
       /\ last' = [Outcome("proxyInsert", "none", <<>>, e, FALSE, EmptyMap) EXCEPT !.arg = p, !.ret = r.val]
       /\ UNCHANGED <<call, kernox, tick, wrappers, rested, leftScene>>

ProxyRemove(p, e) ==
    LET r == proxyRemove(World, proxies, p, e)
    IN /\ Commit(r.w)
       /\ proxies' = r.px
       /\ last' = [Outcome("proxyRemove", "none", <<>>, e, FALSE, EmptyMap) EXCEPT !.arg = p, !.ret = r.val]
       /\ UNCHANGED <<call, kernox, tick, wrappers, rested, leftScene>>

UpdateCollection(p, c) ==
    /\ proxies[p].updates < MaxUpdates
    /\ proxies' = updateCollection(proxies, p, insts, c)
    /\ last' = [Outcome("updateCollection", "none", <<>>, c, FALSE, EmptyMap) EXCEPT !.arg = p]
    /\ UNCHANGED <<call, kernox, tick, collectionTemplates, sceneCollections, activeScene, insts, types, pools, nextID,
                   ents, objs, wrappers, rested, leftScene>>

UnregisterWrapper(p) ==
    /\ wrappers' = unregisterWrapper(wrappers, p)
    /\ last' = [Outcome("unregisterWrapper", "none", <<>>, 0, FALSE, EmptyMap) EXCEPT !.arg = p]
    /\ UNCHANGED <<call, kernox, tick, collectionTemplates, sceneCollections, activeScene, insts, types, pools, nextID,
                   ents, objs, proxies, rested, leftScene>>

GetSmartWrapper(name) ==
    LET r == getSmartWrapper(World, wrappers, proxies, name)
    IN /\ Len(r.px) <= MaxProxies
       /\ Commit(r.w)
       /\ wrappers' = r.wr
       /\ proxies' = r.px
       /\ last' = Outcome("getSmartWrapper", r.err, name, r.val, FALSE, EmptyMap)
       /\ UNCHANGED <<call, kernox, tick, rested, leftScene>>

NotifyWrappers(name, c) ==
    /\ \A p \in 1..Len(proxies) : proxies[p].updates < MaxUpdates
    /\ proxies' = notifyWrappers(wrappers, proxies, insts, name, c)
    /\ last' = Outcome("notifyWrappers", "none", name, c, FALSE, EmptyMap)
    /\ UNCHANGED <<call, kernox, tick, collectionTemplates, sceneCollections, activeScene, insts, types, pools, nextID,
                   ents, objs, wrappers, rested, leftScene>>

\* a system of the given context asks for a collection
GetCollection(context, collectionName) ==
    LET r == getCollection(World, context, collectionName)
    IN /\ Commit(r.w)
       /\ last' = [Outcome("getCollection", r.err, collectionName, r.val, FALSE, EmptyMap) EXCEPT
                       !.context = context,
                       !.resource = resolveResourceName(context, collectionName)]
       /\ UNCHANGED <<call, kernox, tick, wrappers, proxies, rested, leftScene>>

\* a system of the given context subscribes to an event
AttachToEvent(context, eventName) ==
    /\ last' = [Outcome("attachToEvent", "none", eventName, 0, FALSE, EmptyMap) EXCEPT
                    !.context = context,
                    !.resource = attachToEvent(context, eventName)]
    /\ UNCHANGED <<collectionTemplates, sceneCollections, activeScene, insts, types, pools, nextID,
                   ents, objs, wrappers, proxies, rested, leftScene, kernox, tick, call>>

\* app.execute() called by the program; the implementation cannot let an
\* error escape, so the call always returns
Execute(startThrows, throwAt) ==
    LET r == execute(kernox, startThrows, throwAt) IN
    /\ tick.count < MaxTicks
    /\ kernox' = r.k
    /\ tick' = Observe(r)
    /\ last' = Outcome("execute", "none", <<>>, 0, FALSE, EmptyMap)
    /\ UNCHANGED <<collectionTemplates, sceneCollections, activeScene, insts, types, pools, nextID,
                   ents, objs, wrappers, proxies, rested, leftScene, call>>

\* the browser runs a requested animation frame: (timeSpan) => this.execute(timeSpan)
AnimationFrame(startThrows, throwAt) ==
    LET r == execute([kernox EXCEPT !.pending = @ - 1], startThrows, throwAt) IN
    /\ kernox.pending > 0
    /\ tick.count < MaxTicks
    /\ kernox' = r.k
    /\ tick' = Observe(r)
    /\ last' = Outcome("frame", "none", <<>>, 0, FALSE, EmptyMap)
    /\ UNCHANGED <<collectionTemplates, sceneCollections, activeScene, insts, types, pools, nextID,
                   ents, objs, wrappers, proxies, rested, leftScene, call>>

\* system.paused = state
SetSystemPaused(s, state) ==
    /\ kernox.sysPaused[s] # state
    /\ kernox' = [kernox EXCEPT !.sysPaused[s] = state]
    /\ last' = Outcome("paused", "none", <<s>>, 0, FALSE, EmptyMap)
    /\ UNCHANGED <<collectionTemplates, sceneCollections, activeScene, insts, types, pools, nextID,
                   ents, objs, wrappers, proxies, rested, leftScene, tick, call>>

----------------------------------------------------------------------------
(* Inputs *)

\* three classes named C: one of the application, one of addon a, one of addon b
ClassC == [name |-> "C", module |-> "app"]
ClassCa == [name |-> "C", module |-> "a"]
ClassCb == [name |-> "C", module |-> "b"]

ProtoT == [name |-> <<"T">>, attributes |-> [hp |-> 0, max_hp |-> 0],
           collections |-> << <<"C">> >>, inherits |-> <<>>]
\* a prototype naming a collection "M" that nobody registers
ProtoU == [name |-> <<"U">>, attributes |-> [hp |-> 0],
           collections |-> << <<"C">>, <<"M">> >>, inherits |-> <<>>]
ProtoV == [name |-> <<"V">>, attributes |-> [hp |-> 0],
           collections |-> <<>>, inherits |-> <<>>]

\* the world after new Kernox()
World0 == [tpl |-> EmptyMap, sc |-> [s \in {"default"} |-> EmptyMap], act |-> "default",
           insts |-> <<>>, types |-> EmptyMap, pools |-> EmptyMap, nextID |-> 0, ents |-> <<>>,
           objs |-> <<>>]

\* setup code: a sequence of registration calls run on the fresh application
RECURSIVE RunSetup(_, _)
RunSetup(w, calls) ==
    IF calls = <<>> THEN w
    ELSE LET c == Head(calls)
             r == IF c.op = "use" THEN use(w, c.ctor, c.ns) ELSE prototype(w, c.schema, c.ns)
         IN RunSetup(r.w, Tail(calls))

UseCall(Ctr, ns) == [op |-> "use", ctor |-> Ctr, ns |-> ns]
ProtoCall(schema, ns) == [op |-> "prototype", schema |-> schema, ns |-> ns]

\* global collection C and prototype T
SetupBare == <<UseCall(ClassC, ""), ProtoCall(ProtoT, "")>>
\* addon a registers collection a.C and prototype a.T
SetupAddon == <<UseCall(ClassCa, "a"), ProtoCall(ProtoT, "a")>>
\* both of the above
SetupBoth == <<UseCall(ClassC, ""), UseCall(ClassCa, "a"), ProtoCall(ProtoT, ""), ProtoCall(ProtoT, "a")>>
\* prototypes whose creation fails: U names an unregistered collection, V is
\* registered by both addons, and no prototype is called Z
SetupErr == <<UseCall(ClassC, ""), ProtoCall(ProtoT, ""), ProtoCall(ProtoU, ""),
              ProtoCall(ProtoV, "a"), ProtoCall(ProtoV, "b")>>

InitAfter(setups) ==
    /\ \E calls \in setups : Holds(RunSetup(World0, calls))
    /\ wrappers = EmptyMap
    /\ proxies = <<>>
    /\ last = Outcome("init", "none", <<>>, 0, FALSE, EmptyMap)
    /\ rested = EmptyMap
    /\ leftScene = EmptyMap
    /\ kernox = NewKernox
    /\ tick = NoTick
    /\ call = NoCall

(* Registry: registration, lookup, scene switches and live references on a fresh application *)
Next ==
    \/ \E c \in {<<ClassC, "">>, <<ClassCa, "a">>, <<ClassCb, "b">>} : Use(c[1], c[2])
    \/ \E name \in {<<"C">>, <<"a", "C">>, <<"b", "C">>} : Get(name)
    \/ \E name \in {<<"C">>, <<"a", "C">>} : GetSmartWrapper(name)
    \/ \E s \in Scenes : SwitchScene(s)

Spec == Init /\ [][Next]_vars

(* Pool discipline: two types with their pools, one scene *)
InitPool == InitAfter({SetupBoth})

NextPool ==
    \/ \E type \in DOMAIN types : Create(type, EmptyMap, MaxPooled)
    \/ \E e \in Live : SendToRest(e)

SpecPool == InitPool /\ [][NextPool]_vars

(* Entity lifecycle across scenes, with the names the setup registered *)
InitScene == InitAfter({SetupBare, SetupAddon})

NextScene ==
    \/ \E type \in DOMAIN types : Create(type, EmptyMap, MaxEntities)
    \/ \E e \in Live : SendToRest(e)
    \/ \E e \in Live, name \in DOMAIN collectionTemplates : AddEntityTo(e, name)
    \/ \E e \in Live, name \in DOMAIN collectionTemplates : RemoveEntityFrom(e, name)
    \/ \E s \in Scenes : SwitchScene(s)

SpecScene == InitScene /\ [][NextScene]_vars

(* Attributes, params and children over the life of an entity *)
InitAttrs == InitAfter({SetupBare, SetupAddon})

NextAttrs ==
    \/ \E type \in DOMAIN types, params \in {EmptyMap, [hp |-> 1, max_hp |-> 1]} :
          Create(type, params, MaxAttrEntities)
    \/ \E e \in Live : SendToRest(e)
    \/ \E e \in Live, k \in {"hp", "tmp", "_tmp"} : SetAttr(e, k, 1)
    \/ \E e \in Live, child \in Live : AppendChild(e, "slot", child)
    \/ \E s \in Scenes : SwitchScene(s)

SpecAttrs == InitAttrs /\ [][NextAttrs]_vars

(* Params of create: keys with an underscore inside, keys the entity does
   not have, and keys with a leading underscore that user code has set *)
NextParams ==
    \/ \E type \in DOMAIN types,
          params \in {[hp |-> 1, max_hp |-> 1], [hp |-> 2, ghost |-> 2, _tmp |-> 2]} :
          Create(type, params, MaxEntities)
    \/ \E e \in Live : SendToRest(e)
    \/ \E e \in Live, k \in {"hp", "_tmp"} : SetAttr(e, k, 1)

SpecParams == InitAttrs /\ [][NextParams]_vars

(* Failing creations *)
InitErr == InitAfter({SetupErr})

NextErr ==
    \/ \E type \in {<<"T">>, <<"U">>, <<"V">>, <<"a", "V">>, <<"Z">>} : Create(type, EmptyMap, MaxEntities)
    \/ \E e \in Live : SendToRest(e)
    \/ \E s \in Scenes : SwitchScene(s)

SpecErr == InitErr /\ [][NextErr]_vars

(* A type registered by two addons, asked for by bare and by qualified name *)
NextAmbig ==
    \/ \E type \in {<<"T">>, <<"V">>, <<"a", "V">>, <<"b", "V">>} :
          Create(type, EmptyMap, MaxAmbigEntities)
    \/ \E e \in Live : SendToRest(e)
    \/ \E s \in Scenes : SwitchScene(s)

SpecAmbig == InitErr /\ [][NextAmbig]_vars

(* Scene visits while templates are still being registered *)
InitVisit == InitAfter({SetupBare})

NextVisit ==
    \/ \E c \in {<<ClassCa, "a">>} : Use(c[1], c[2])
    \/ \E type \in DOMAIN types : Create(type, EmptyMap, MaxVisitors)
    \/ \E e \in Live : AddEntityTo(e, <<"C">>)
    \/ \E e \in Live : RemoveEntityFrom(e, <<"C">>)
    \/ \E name \in {<<"a", "C">>} : Get(name)
    \/ \E s \in Scenes : SwitchScene(s)

SpecVisit == InitVisit /\ [][NextVisit]_vars

(* Registration under names already taken *)
\* another application class that is also named C, and another schema named T
ClassC2 == [name |-> "C", module |-> "other"]
ProtoT2 == [name |-> <<"T">>, attributes |-> [hp |-> 5], collections |-> <<>>, inherits |-> <<>>]

NextReg ==
    \/ \E c \in {<<ClassC, "">>, <<ClassC2, "">>, <<ClassCa, "a">>} : Use(c[1], c[2])
    \/ \E p \in {<<ProtoT, "">>, <<ProtoT2, "">>, <<ProtoT, "a">>} : Prototype(p[1], p[2])
    \/ \E type \in DOMAIN types : Create(type, EmptyMap, MaxRegEntities)
    \/ \E s \in Scenes : SwitchScene(s)

SpecReg == Init /\ [][NextReg]_vars


(* Inheritance: schemas with zero, one or two parents *)
Schema(name, attributes, collections, inherits) ==
    [name |-> <<name>>, attributes |-> attributes, collections |-> collections, inherits |-> inherits]

ParentsFirst == {Schema("P1", [x |-> 0, y |-> 0], << <<"A">> >>, <<>>), Schema("P1", [y |-> 0], <<>>, <<>>)}
ParentsSecond == {Schema("P2", [y |-> 9, z |-> 9], << <<"B">> >>, <<>>),
                  Schema("P2", [x |-> 9], << <<"A">>, <<"B">> >>, <<>>)}
InheritLists ==
    {<<>>} \cup {<<p>> : p \in ParentsFirst}
           \cup {<<p, q>> : p \in ParentsFirst, q \in ParentsSecond}
           \cup {<<q, p>> : p \in ParentsFirst, q \in ParentsSecond}
Children ==
    {Schema(n, a, c, i) : n \in {"K"}, a \in {EmptyMap, [x |-> 1], [y |-> 1], [x |-> 1, y |-> 1]},
                          c \in {<<>>, << <<"A">> >>}, i \in InheritLists}

NextInherit ==
    \/ \E schema \in Children : Prototype(schema, "")

SpecInherit == Init /\ [][NextInherit]_vars

(* Inheritance over two generations: the parent of the schema has parents of its own *)
Grandparents == {Schema("G1", [x |-> 7, z |-> 7], << <<"B">> >>, <<>>),
                 Schema("G2", [w |-> 7], <<>>, <<>>)}
GrandLists == {<<>>} \cup {<<g>> : g \in Grandparents}
                     \cup {l \in {<<g, h>> : g, h \in Grandparents} : l[1] # l[2]}
ParentsWithParents ==
    {Schema("P", a, c, i) : a \in {[x |-> 0], [y |-> 0]}, c \in {<<>>, << <<"A">> >>}, i \in GrandLists}
Descendants ==
    {Schema("K", a, c, <<p>>) : a \in {[x |-> 1], [z |-> 1]}, c \in {<<>>, << <<"A">> >>},
                                p \in ParentsWithParents}

NextAncestors ==
    \/ \E schema \in Descendants : Prototype(schema, "")

SpecAncestors == Init /\ [][NextAncestors]_vars

(* Object and array attributes: the schema literals of user code sit in the heap *)
DefaultPos == [x |-> 0]
DefaultLoot == <<"Sword", "Gold">>
ProtoN == [name |-> <<"N">>, attributes |-> [hp |-> 0, pos |-> 1, loot |-> 2],
           collections |-> <<>>, inherits |-> <<>>]
\* a schema that gets its object attributes from its parent
ProtoM == [name |-> <<"M">>, attributes |-> [hp |-> 1], collections |-> <<>>, inherits |-> <<ProtoN>>]
WorldN == [World0 EXCEPT !.objs = <<DefaultPos, DefaultLoot>>]

InitNested ==
    /\ \E calls \in {<<ProtoCall(ProtoN, "")>>, <<ProtoCall(ProtoM, "")>>} : Holds(RunSetup(WorldN, calls))
    /\ wrappers = EmptyMap
    /\ proxies = <<>>
    /\ last = Outcome("init", "none", <<>>, 0, FALSE, EmptyMap)
    /\ rested = EmptyMap
    /\ leftScene = EmptyMap
    /\ kernox = NewKernox
    /\ tick = NoTick
    /\ call = NoCall

NextNested ==
    \/ \E type \in DOMAIN types : Create(type, EmptyMap, MaxNested)
    \/ \E e \in Live : SendToRest(e)
    \/ \E e \in Live, k \in {"pos", "loot"} : MutateObject(e, k)

SpecNested == InitNested /\ [][NextNested]_vars

(* A schema literal in which one array is the value of two attributes *)
ProtoS == [name |-> <<"S">>, attributes |-> [hp |-> 0, pos |-> 2, loot |-> 2],
           collections |-> <<>>, inherits |-> <<>>]

InitShared ==
    /\ Holds(RunSetup(WorldN, <<ProtoCall(ProtoS, "")>>))
    /\ wrappers = EmptyMap
    /\ proxies = <<>>
    /\ last = Outcome("init", "none", <<>>, 0, FALSE, EmptyMap)
    /\ rested = EmptyMap
    /\ leftScene = EmptyMap
    /\ kernox = NewKernox
    /\ tick = NoTick
    /\ call = NoCall

NextShared ==
    \/ \E type \in DOMAIN types : Create(type, EmptyMap, MaxNested)
    \/ \E e \in Live : SendToRest(e)
    \/ \E e \in Live : MutateObject(e, "loot")

SpecShared == InitShared /\ [][NextShared]_vars

(* deepAssign, one statement at a time.  The attribute graph is a heap of   *)
(* objects with the keys of KeyOrder; a value is 0 (a primitive) or the     *)
(* index of an object.  Object 1 is prototype.attributes.  The copies are   *)
(* built in the heap out, with out[1] the recipient of the outermost call.  *)
KeyOrder == <<"a", "b">>

Graphs == [1..MaxNodes -> [Range(KeyOrder) -> 0..MaxNodes]]

\* variant: the guard never finds the object
alreadySeen_never(seen, object) == FALSE

\* seen.has(prototype)
alreadySeen(seen, object) == object \in seen

\* this.deepAssign(recipient, prototype, seen) up to the head of its for loop
deepAssignEnter(c, recipient, object) ==
    IF alreadySeen(c.seen, object) THEN c
    ELSE [c EXCEPT !.seen = @ \cup {object},
                   !.stack = Append(@, [recipient |-> recipient, prototype |-> object, next |-> 1])]

Top == call.stack[Len(call.stack)]

OnlyCall ==
    UNCHANGED <<collectionTemplates, sceneCollections, activeScene, insts, types, pools, nextID,
                ents, objs, wrappers, proxies, last, rested, leftScene, kernox, tick>>

\* create, resetEntityState or prototype calls deepAssign(recipient, attributes)
\* with a fresh seen map
DeepAssignCall(caller) ==
    /\ call.stack = <<>>
    /\ call' = deepAssignEnter([call EXCEPT !.op = caller, !.out = <<EmptyMap>>, !.seen = {}], 1, 1)
    /\ OnlyCall

\* the for loop of the innermost call has run out of keys: the call returns
DeepAssignReturn ==
    /\ call.stack # <<>>
    /\ Top.next > Len(KeyOrder)
    /\ call' = [call EXCEPT !.stack = SubSeq(@, 1, Len(@) - 1)]
    /\ OnlyCall

\* the next value is a primitive: recipient[key] = value
DeepAssignPrimitive ==
    /\ call.stack # <<>>
    /\ Top.next <= Len(KeyOrder)
    /\ LET key == KeyOrder[Top.next]
           value == call.graph[Top.prototype][key]
       IN /\ value = 0
          /\ call' = [call EXCEPT !.out[Top.recipient] = MapSet(@, key, value),
                                  !.stack[Len(call.stack)].next = @ + 1]
    /\ OnlyCall

\* the next value is an array or an object: recipient[key] = [] (or {}, or a
\* new instance), then the recursive call
DeepAssignObject ==
    /\ call.stack # <<>>
    /\ Top.next <= Len(KeyOrder)
    /\ LET key == KeyOrder[Top.next]
           value == call.graph[Top.prototype][key]
           fresh == Len(call.out) + 1
           entered == deepAssignEnter(
                         [call EXCEPT !.out = Append([@ EXCEPT ![Top.recipient] = MapSet(@, key, fresh)],
                                                     EmptyMap),
                                      !.stack[Len(call.stack)].next = @ + 1],
                         fresh, value)
       IN /\ value # 0
          /\ Len(entered.stack) <= MaxDepth
          /\ call' = entered
    /\ OnlyCall

DeepAssignStep == DeepAssignReturn \/ DeepAssignPrimitive \/ DeepAssignObject

InitCopy ==
    /\ Holds(World0)
    /\ wrappers = EmptyMap
    /\ proxies = <<>>
    /\ last = Outcome("init", "none", <<>>, 0, FALSE, EmptyMap)
    /\ rested = EmptyMap
    /\ leftScene = EmptyMap
    /\ kernox = NewKernox
    /\ tick = NoTick
    /\ \E g \in Graphs : call = [NoCall EXCEPT !.graph = g]

NextCopy ==
    \/ \E caller \in {"create", "resetEntityState", "prototype"} : DeepAssignCall(caller)
    \/ DeepAssignReturn
    \/ DeepAssignPrimitive
    \/ DeepAssignObject

SpecCopy == InitCopy /\ [][NextCopy]_vars

\* a call that has begun keeps executing its statements
FairCopy == SpecCopy /\ WF_vars(DeepAssignStep)

(* prototype(), one turn of its while loop at a time.  Schemas are objects  *)
(* of a heap and inherits holds references to them, so that a schema can be *)
(* reached from itself.  The field parity of the activation observes the    *)
(* number of turns made so far, modulo 2.                                   *)
SchemaNames == <<"P", "Q", "R", "S">>

\* the inherits arrays: up to two different parents
ParentRefs ==
    {<<>>} \cup {<<p>> : p \in 1..MaxSchemas}
           \cup {l \in {<<p, q>> : p, q \in 1..MaxSchemas} : l[1] # l[2]}

SchemaObject(i, inherits) ==
    [name |-> <<SchemaNames[i]>>,
     attributes |-> IF i = 1 THEN [hp |-> 1] ELSE [hp |-> i, mp |-> i],
     collections |-> IF i = 1 THEN <<>> ELSE <<<<"C">>>>,
     inherits |-> inherits]

SchemaHeaps == {[i \in 1..MaxSchemas |-> SchemaObject(i, f[i])] : f \in [1..MaxSchemas -> ParentRefs]}

\* current = stack.pop(); 0 stands for undefined
StackPop(c) ==
    IF c.stack = <<>> THEN [c EXCEPT !.current = 0]
    ELSE [c EXCEPT !.current = c.stack[Len(c.stack)], !.stack = SubSeq(@, 1, Len(@) - 1)]

\* prototype(schema): the name check, the parents pushed, the first pop
PrototypeCall(target) ==
    LET name == call.schemas[target].name IN
    /\ call.op # "loop"
    /\ IF name \in DOMAIN types
       THEN /\ last' = Outcome("prototype", "duplicate_type", name, 0, FALSE, EmptyMap)
            /\ UNCHANGED call
       ELSE /\ last' = Outcome("prototype", "none", name, 0, FALSE, EmptyMap)
            /\ call' = StackPop([call EXCEPT !.op = "loop", !.target = target,
                                             !.stack = call.schemas[target].inherits])
    /\ UNCHANGED <<collectionTemplates, sceneCollections, activeScene, insts, types, pools, nextID,
                   ents, objs, wrappers, proxies, rested, leftScene, kernox, tick>>

\* one turn of while(current): the attributes and collections of current are
\* merged into the schema, the parents of current are pushed, the next is popped
PrototypeTurn ==
    /\ call.op = "loop"
    /\ call.current # 0
    /\ LET current == call.schemas[call.current]
           proto == call.schemas[call.target]
           t1 == deepAssign(<<>>, EmptyMap, current.attributes)
           temp == deepAssign(t1.objs, t1.attrs, proto.attributes)
       IN /\ Len(call.stack) + Len(current.inherits) <= MaxStack
          /\ call' = StackPop([call EXCEPT
                          !.parity = 1 - @,
                          !.schemas[call.target].attributes = temp.attrs,
                          !.schemas[call.target].collections = SetUnion(proto.collections, current.collections),
                          !.stack = @ \o current.inherits])
    /\ OnlyCall

\* the loop has ended: this.types.set(name, prototype)
PrototypeRegister ==
    /\ call.op = "loop"
    /\ call.current = 0
    /\ types' = MapSet(types, call.schemas[call.target].name, call.schemas[call.target])
    /\ call' = [call EXCEPT !.op = "registered"]
    /\ UNCHANGED <<collectionTemplates, sceneCollections, activeScene, insts, pools, nextID,
                   ents, objs, wrappers, proxies, last, rested, leftScene, kernox, tick>>

InitInherits ==
    /\ Holds(World0)
    /\ wrappers = EmptyMap
    /\ proxies = <<>>
    /\ last = Outcome("init", "none", <<>>, 0, FALSE, EmptyMap)
    /\ rested = EmptyMap
    /\ leftScene = EmptyMap
    /\ kernox = NewKernox
    /\ tick = NoTick
    /\ \E h \in SchemaHeaps :
          call = [op |-> "none", schemas |-> h, target |-> 0, stack |-> <<>>, current |-> 0,
                  parity |-> 0]

NextInherits ==
    \/ \E target \in 1..MaxSchemas : PrototypeCall(target)
    \/ PrototypeTurn
    \/ PrototypeRegister

SpecInherits == InitInherits /\ [][NextInherits]_vars

\* a call that has begun keeps executing its statements
FairInherits == SpecInherits /\ WF_vars(PrototypeTurn \/ PrototypeRegister)

(* Collections and a proxy used directly: two lists, one proxy, ready-made entities *)
ClassArrayList == [name |-> "ArrayList", module |-> "kernox"]
WorldL(n) == [World0 EXCEPT !.insts = <<NewArrayList(ClassArrayList), NewArrayList(ClassArrayList)>>,
                            !.ents = [i \in 1..n |-> NewEntity(i, <<"Entity">>)]]

InitLists(n) ==
    /\ Holds(WorldL(n))
    /\ wrappers = EmptyMap
    /\ proxies = <<NewProxy(WorldL(n), <<"TestCollection">>, 1)>>
    /\ last = Outcome("init", "none", <<>>, 0, FALSE, EmptyMap)
    /\ rested = EmptyMap
    /\ leftScene = EmptyMap
    /\ kernox = NewKernox
    /\ tick = NoTick
    /\ call = NoCall

InitList == InitLists(MaxListEntities)
InitProxy == InitLists(MaxProxyEntities)

NextList ==
    \/ \E c \in 1..Len(insts), e \in 1..Len(ents) : ListInsert(c, e)
    \/ \E c \in 1..Len(insts), e \in 1..Len(ents) : ListRemove(c, e)

SpecList == InitList /\ [][NextList]_vars

(* Retiring entities: addon a alone, or addons a and b that both register a
   class named C; the calls of create are those that return an entity, and
   any entity returned may be sent to rest, also one that already rests *)
SetupTwins == <<UseCall(ClassCa, "a"), UseCall(ClassCb, "b"), ProtoCall(ProtoT, "a")>>

InitRest == InitAfter({SetupAddon, SetupTwins})

PoolOf(e) == IF ents[e].type \in DOMAIN pools THEN pools[ents[e].type] ELSE <<>>

NextRest ==
    \/ \E type \in {<<"T">>, <<"a", "T">>} :
          create(World, type, EmptyMap).err = "none" /\ Create(type, EmptyMap, MaxEntities)
    \/ \E e \in 1..Len(ents) : Len(PoolOf(e)) < MaxPooled /\ SendToRest(e)

SpecRest == InitRest /\ [][NextRest]_vars

(* Systems of addons a and b, and one without context, asking for collections and events *)
Contexts == {"a", "b", ""}

NextSystem ==
    \/ \E c \in {<<ClassC, "">>, <<ClassCa, "a">>, <<ClassCb, "b">>} : Use(c[1], c[2])
    \/ \E s \in Scenes : SwitchScene(s)
    \/ \E context \in Contexts, name \in {<<"C">>, <<"D">>, <<"a", "C">>, <<"b", "C">>, <<"b", "D">>} :
          GetCollection(context, name)
    \/ \E context \in Contexts, name \in {<<"hit">>, <<"b", "hit">>} : AttachToEvent(context, name)

SpecSystem == Init /\ [][NextSystem]_vars

(* Names of three segments: addon a registers collection C and a prototype
   whose own name has a dot, and systems ask for resources of another addon
   by names of three segments *)
ProtoX == [name |-> <<"x", "T">>, attributes |-> [hp |-> 0],
           collections |-> << <<"C">> >>, inherits |-> <<>>]

SetupSegments == <<UseCall(ClassCa, "a"), ProtoCall(ProtoT, "a"), ProtoCall(ProtoX, "a")>>

InitSegments == InitAfter({SetupSegments})

NextSegments ==
    \/ \E type \in DOMAIN types : Create(type, EmptyMap, MaxEntities)
    \/ \E e \in Live : SendToRest(e)
    \/ \E context \in Contexts, name \in {<<"C">>, <<"a", "C">>, <<"b", "ui", "C">>} :
          GetCollection(context, name)
    \/ \E context \in Contexts, name \in {<<"hit">>, <<"b", "hit">>, <<"b", "ui", "hit">>} :
          AttachToEvent(context, name)

SpecSegments == InitSegments /\ [][NextSegments]_vars

(* The execution loop: calls of execute, animation frames, systems paused and resumed *)
NextKernox ==
    \/ \E startThrows \in BOOLEAN, throwAt \in {"none"} \cup Range(Systems) :
          Execute(startThrows, throwAt)
    \/ \E startThrows \in BOOLEAN, throwAt \in {"none"} \cup Range(Systems) :
          AnimationFrame(startThrows, throwAt)
    \/ \E s \in Range(Systems), state \in BOOLEAN : SetSystemPaused(s, state)

SpecKernox == Init /\ [][NextKernox]_vars

(* Lists that are also sorted, and whose flag a consumer clears *)
NextSort ==
    \/ \E c \in 1..Len(insts), e \in 1..Len(ents) : ListInsert(c, e)
    \/ \E c \in 1..Len(insts), e \in 1..Len(ents) : ListRemove(c, e)
    \/ \E c \in 1..Len(insts), criteria \in {"ascending", "descending"} : ListSort(c, criteria)
    \/ \E c \in 1..Len(insts) : ResetChanged(c)

SpecSort == InitList /\ [][NextSort]_vars

NextProxy ==
    \/ \E c \in 1..Len(insts), e \in 1..Len(ents) : ListInsert(c, e)
    \/ \E c \in 1..Len(insts), e \in 1..Len(ents) : ListRemove(c, e)
    \/ \E p \in 1..Len(proxies), e \in 1..Len(ents) : ProxyInsert(p, e)
    \/ \E p \in 1..Len(proxies), e \in 1..Len(ents) : ProxyRemove(p, e)
    \/ \E p \in 1..Len(proxies), c \in 1..Len(insts) : UpdateCollection(p, c)

SpecProxy == InitProxy /\ [][NextProxy]_vars

(* Live references: obtained, unregistered and obtained again *)
InitWrap == InitAfter({<<UseCall(ClassC, ""), UseCall(ClassCa, "a")>>})

\* proxy 0 stands for a proxy the registry never issued
NextWrap ==
    \/ \E name \in {<<"C">>, <<"a", "C">>} : GetSmartWrapper(name)
    \/ \E p \in 0..Len(proxies) : UnregisterWrapper(p)
    \/ \E s \in Scenes : SwitchScene(s)

SpecWrap == InitWrap /\ [][NextWrap]_vars

(* Live references notified of new instances *)
NextNotify ==
    \/ \E name \in {<<"C">>, <<"a", "C">>} : GetSmartWrapper(name)
    \/ \E name \in {<<"C">>, <<"a", "C">>, <<"D">>}, c \in 1..Len(insts) : NotifyWrappers(name, c)
    \/ \E p \in 1..Len(proxies) : UnregisterWrapper(p)

SpecNotify == InitWrap /\ [][NextNotify]_vars

----------------------------------------------------------------------------
(* Claims *)

\* the prototype create(type) resolves to
ProtoOf(type) ==
    types[IF type \in DOMAIN types THEN type ELSE resolveTypeNamespace(World, type).key]

Returned == last.op = "create" /\ last.err = "none"

\* C1: create(T) returns the entity most recently sent to rest for T and not
\* taken back since (same record, same id, same type, no id allocated) when
\* there is one, and a freshly allocated entity with the next id otherwise.
C1_PoolDiscipline ==
    [][(last'.op = "create" /\ last'.err = "none") =>
        LET T == last'.name
            e == last'.ent
        IN IF T \in DOMAIN rested /\ rested[T] # <<>>
           THEN /\ e = rested[T][Len(rested[T])]
                /\ last'.recycled
                /\ ents'[e].id = ents[e].id
                /\ ents[e].type = T /\ ents'[e].type = T
                /\ nextID' = nextID /\ Len(ents') = Len(ents)
           ELSE /\ e = Len(ents) + 1
                /\ ~last'.recycled
                /\ ents'[e].id = nextID /\ ents'[e].type = T
                /\ nextID' = nextID + 1]_vars

\* C1 witness: a create recycled an entity while an older one stays in the same pool
C1_Witness ==
    /\ Returned /\ last.recycled
    /\ last.name \in DOMAIN pools /\ Len(pools[last.name]) >= 1
    /\ \E t \in DOMAIN pools : t # last.name /\ Len(pools[t]) >= 1

\* C2: no entity that sits in a pool is contained in a collection instance of any scene.
C2_PooledInNoCollection ==
    \A e \in 1..Len(ents) : InPool(e) => \A i \in 1..Len(insts) : ~has(insts[i], e)

\* C3: what happens while one scene is active leaves the instances of every
\* other scene as they were when that scene was left, no instance is shared
\* between scenes, and on return get(C) has the membership it had on leaving.
C3_SceneIsolation ==
    /\ \A s \in (DOMAIN sceneCollections) \ {activeScene} :
          s \in DOMAIN leftScene /\ SceneView(World, s) = leftScene[s]
    /\ \A s1, s2 \in DOMAIN sceneCollections :
          s1 # s2 => \A n1 \in DOMAIN sceneCollections[s1], n2 \in DOMAIN sceneCollections[s2] :
                        sceneCollections[s1][n1] # sceneCollections[s2][n2]
    /\ (last.op = "switchScene" /\ last.visit = "repeat") =>
          \A n \in DOMAIN leftScene[activeScene] :
             LET r == get(World, n)
             IN r.err = "none" /\ insts[r.val].entities = leftScene[activeScene][n].obj.entities

\* C3 witness: back in a scene whose collection holds entities the other scene's does not
C3_Witness ==
    /\ last.op = "switchScene" /\ last.visit = "repeat"
    /\ \E n \in DOMAIN sceneCollections[activeScene] : \E s \in (DOMAIN sceneCollections) \ {activeScene} :
          /\ n \in DOMAIN sceneCollections[s]
          /\ insts[sceneCollections[activeScene][n]].entities # <<>>
          /\ insts[sceneCollections[s][n]].entities # <<>>
          /\ insts[sceneCollections[s][n]].entities # insts[sceneCollections[activeScene][n]].entities

C4_FirstVisit ==
    /\ last.op = "switchScene" /\ last.visit = "first"
    /\ Cardinality(DOMAIN sceneCollections[activeScene]) = 2

\* C5: in every scene each registered template has at most one instance, so
\* the bare name and the qualified name of a template yield the same instance.
C5_OneInstancePerTemplate ==
    \A s \in DOMAIN sceneCollections : \A t \in DOMAIN collectionTemplates :
        Cardinality({n \in DOMAIN sceneCollections[s] :
                        insts[sceneCollections[s][n]].ctor = collectionTemplates[t]}) <= 1

\* C6: after a scene switch every registered live reference is bound to the
\* instance get() yields for its name in the now active scene.
C6_ProxiesFollowScene ==
    last.op = "switchScene" =>
        \A name \in DOMAIN wrappers :
            LET r == get(World, name)
            IN r.err = "none" => proxies[wrappers[name]].collection = r.val

\* C7: an entity returned by create(T, params) has every prototype attribute,
\* the value of params for every key that is an attribute and does not begin
\* with an underscore, and is contained in the active scene's instance of
\* every collection of T's schema, whose name is in its membership set.
C7_CreatedEntityComplete ==
    Returned =>
        LET e == ents[last.ent]
            proto == ProtoOf(last.name)
            context == IF Len(last.name) = 2 THEN last.name[1] ELSE ""
        IN /\ DOMAIN proto.attributes \subseteq DOMAIN e.attrs
           /\ \A k \in DOMAIN last.params :
                 (k \in DOMAIN e.attrs /\ ~StartsWithUnderscore(k)) => e.attrs[k] = last.params[k]
           /\ \A i \in 1..Len(proto.collections) :
                 LET n == Qualify(context, proto.collections[i])
                     r == get(World, n)
                 IN r.err = "none" /\ has(insts[r.val], last.ent) /\ SeqHas(e.colls, n)

\* C8: a create that raises an error leaves the id counter, every pool and
\* the contents of every collection instance as they were before the call.
C8_CreateFailsAtomically ==
    [][(last'.op = "create" /\ last'.err # "none") =>
        /\ nextID' = nextID
        /\ pools' = pools
        /\ \A i \in 1..Len(insts) : insts'[i] = insts[i]]_vars

\* C9: a recycled entity returned by create(T) without params has exactly
\* the prototype's attributes at their default values, no children, and the
\* membership set a freshly allocated entity of T gets in the same state.
C9_RecycledLikeFresh ==
    (Returned /\ last.recycled /\ last.params = EmptyMap) =>
        LET e == ents[last.ent]
        IN /\ e.attrs = ProtoOf(last.name).attributes
           /\ e.children = EmptyMap
           /\ Range(e.colls) = Range(last.twin.colls)

\* C10: after sendToRest(e) returns, e has an empty membership set, is in no
\* collection instance of the active scene and is on top of the pool of its type.
C10_RestedEntity ==
    (last.op = "sendToRest" /\ last.err = "none") =>
        LET e == last.ent
            t == ents[e].type
        IN /\ ents[e].colls = <<>>
           /\ \A n \in DOMAIN sceneCollections[activeScene] :
                 ~has(insts[sceneCollections[activeScene][n]], e)
           /\ t \in DOMAIN pools /\ pools[t] # <<>> /\ pools[t][Len(pools[t])] = e

\* C11: the id of a freshly allocated entity is the counter value, greater
\* than every id allocated before; a recycle keeps the counter and the id of
\* the record; no two entity records ever carry the same id.
C11_FreshIdsIncrease ==
    [][(last'.op = "create" /\ last'.err = "none") =>
        LET e == last'.ent
        IN /\ IF last'.recycled
              THEN nextID' = nextID /\ ents'[e].id = ents[e].id /\ Len(ents') = Len(ents)
              ELSE /\ ents'[e].id = nextID /\ nextID' = nextID + 1
                   /\ \A i \in 1..Len(ents) : ents[i].id < ents'[e].id
           /\ \A i, j \in 1..Len(ents') : i # j => ents'[i].id # ents'[j].id]_vars

\* C11 witness: a fresh entity is allocated while an entity with a smaller id
\* rests in a pool and another one allocated earlier is in use
C11_Witness ==
    /\ Returned /\ ~last.recycled
    /\ \E e \in 1..Len(ents) : InPool(e) /\ ents[e].id < ents[last.ent].id
    /\ \E e \in Live : e < last.ent - 1

\* C12: with templates a.C and b.C registered (and no global C), get("C")
\* raises an ambiguity error in every state, and get("a.C") succeeds.
C12_BareNameAmbiguous ==
    (<<"a", "C">> \in DOMAIN collectionTemplates /\ <<"b", "C">> \in DOMAIN collectionTemplates
        /\ <<"C">> \notin DOMAIN collectionTemplates) =>
        /\ get(World, <<"C">>).err \in {"ambiguous_collection", "ambiguous_template"}
        /\ get(World, <<"a", "C">>).err = "none"

\* C13: use or prototype under a qualified name already registered raises an
\* error and changes nothing: templates, schemas, every scene's instances
\* and their contents are as before the call.
C13_DuplicateRegistration ==
    [][/\ (last'.op = "use" /\ last'.name \in DOMAIN collectionTemplates) =>
              last'.err = "duplicate_collection"
       /\ (last'.op = "prototype" /\ last'.name \in DOMAIN types) =>
              last'.err = "duplicate_type"
       /\ (last'.op \in {"use", "prototype"} /\ last'.err # "none") =>
              UNCHANGED <<collectionTemplates, types, sceneCollections, insts, activeScene,
                          pools, nextID, ents>>]_vars

\* C13 witness: a second class named C was refused while the first one's
\* instance holds an entity
C13_Witness ==
    /\ last.op = "use" /\ last.err = "duplicate_collection" /\ last.name = <<"C">>
    /\ collectionTemplates[<<"C">>] \in {ClassC, ClassC2}
    /\ \E i \in 1..Len(insts) : insts[i].entities # <<>>

\* a second schema named T was refused after the first one was registered
C13_PrototypeRefused ==
    /\ last.op = "prototype" /\ last.err = "duplicate_type"
    /\ types[<<"T">>] \in {ProtoT, ProtoT2}

\* C14: get(name) and getSmartWrapper(name) for a name with no instance in
\* the active scene and no template, directly or under any namespace, fail
\* with "Collection '<name>' is not registered." and leave templates, scene
\* instance maps, active scene and the registry of live references unchanged.
C14_NothingNamed(name) ==
    \A n \in {name} \cup {Qualify(Namespaces[i], name) : i \in 1..Len(Namespaces)} :
        n \notin DOMAIN sceneCollections[activeScene] /\ n \notin DOMAIN collectionTemplates

C14_GetRefused ==
    /\ last.op = "get" /\ last.err = "not_registered"
    /\ insts # <<>> /\ activeScene = "level1"

\* C15: registering a schema with inherits = [P1, P2] yields an effective
\* schema holding every attribute key of the child, P1 and P2, where the
\* child's value wins over a parent's and P2's wins over P1's, and whose
\* collections are the union of the three.
C15_InheritanceMerge ==
    (last.op = "prototype" /\ last.err = "none" /\ Len(last.schema.inherits) = 2) =>
        LET c == last.schema
            P1 == c.inherits[1]
            P2 == c.inherits[2]
            eff == types[last.name]
        IN /\ DOMAIN eff.attributes =
                 DOMAIN c.attributes \cup DOMAIN P1.attributes \cup DOMAIN P2.attributes
           /\ \A k \in DOMAIN eff.attributes :
                 eff.attributes[k] = IF k \in DOMAIN c.attributes THEN c.attributes[k]
                                     ELSE IF k \in DOMAIN P2.attributes THEN P2.attributes[k]
                                     ELSE P1.attributes[k]
           /\ Range(eff.collections) = Range(c.collections) \cup Range(P1.collections) \cup Range(P2.collections)

\* C15 witness: the example of the specification, child {x:1} over
\* P1 {x:0, y:0} and P2 {y:9, z:9}, gave x = 1, y = 9, z = 9
C15_Witness ==
    /\ last.op = "prototype" /\ last.err = "none" /\ Len(last.schema.inherits) = 2
    /\ last.schema.attributes = [x |-> 1]
    /\ last.schema.inherits[1].attributes = [x |-> 0, y |-> 0]
    /\ last.schema.inherits[2].attributes = [y |-> 9, z |-> 9]
    /\ types[last.name].attributes = [x |-> 1, y |-> 9, z |-> 9]
    /\ Cardinality(Range(types[last.name].collections)) = 2

\* C16: entities created without params share no object or array with each
\* other or with the stored prototype: changing an object attribute of one
\* entity in place changes no attribute of another entity and no default of
\* a stored prototype, and a later create or recycle yields the defaults.
C16_Holders ==
    {<<"entity", e, k>> : e \in 1..Len(ents), k \in {"pos", "loot"}}
        \cup {<<"type", t, k>> : t \in DOMAIN types, k \in {"pos", "loot"}}

C16_Ref(h) == IF h[1] = "entity" THEN ents[h[2]].attrs[h[3]] ELSE types[h[2]].attributes[h[3]]

C16_NoAliasing ==
    [][/\ (\A h1, h2 \in C16_Holders : h1 # h2 => C16_Ref(h1) # C16_Ref(h2))'
       /\ last'.op = "mutate" =>
             \A h \in C16_Holders :
                h # <<"entity", last'.ent, last'.name[1]>> => objs'[C16_Ref(h)] = objs[C16_Ref(h)]
       /\ (last'.op = "create" /\ last'.err = "none") =>
             /\ objs'[ents'[last'.ent].attrs["pos"]] = DefaultPos
             /\ objs'[ents'[last'.ent].attrs["loot"]] = DefaultLoot]_vars

\* C16 witness: an entity is recycled while its sibling's object and array
\* differ from the defaults
C16_Witness ==
    /\ Returned /\ last.recycled
    /\ \E e \in Live : e # last.ent /\ objs[ents[e].attrs["pos"]] # DefaultPos
                                    /\ objs[ents[e].attrs["loot"]] # DefaultLoot

\* C17: updateCollection(newInst) rebinds the proxy: collection, has, size,
\* get, asArray, filter, iteration and changed are those of newInst, the
\* update callback has run exactly once more, and the name is unchanged.
C17_UpdateCollection ==
    [][last'.op = "updateCollection" =>
        LET p == last'.arg
            c == insts'[last'.ent]
        IN /\ proxies'[p].collection = last'.ent
           /\ \A e \in 1..Len(ents) : proxyHas(proxies', p, insts', e) = has(c, e)
           /\ proxySize(proxies', p, insts') = size(c)
           /\ \A i \in 0..Len(ents) : proxyGet(proxies', p, insts', i) = getAt(c, i)
           /\ proxyAsArray(proxies', p, insts') = asArray(c)
           /\ \A crit \in SUBSET (1..Len(ents)) :
                 proxyFilter(proxies', p, insts', crit) = filter(c, crit)
           /\ proxyChanged(proxies', p, insts') = changed(c)
           /\ proxies'[p].updates = proxies[p].updates + 1
           /\ proxies'[p].name = proxies[p].name]_vars

\* C17 witness: the proxy was rebound from a list to another one with
\* different members and a different changed flag
C17_Witness ==
    /\ last.op = "updateCollection"
    /\ \E c \in 1..Len(insts) :
          /\ c # last.ent
          /\ insts[c].entities # <<>> /\ insts[last.ent].entities # <<>>
          /\ Range(insts[c].entities) # Range(insts[last.ent].entities)
    /\ proxies[last.arg].updates = 2

\* C20: an ArrayList is an insertion-ordered sequence without duplicates:
\* insert appends and returns true exactly when the entity was absent,
\* remove deletes, keeping the order of the others, and returns true exactly
\* when it was present, a rejected call changes nothing, and has, size,
\* get(index) and iteration agree with the sequence.
C20_ArrayListSequence ==
    [][LET c == last'.arg
           e == last'.ent
       IN /\ last'.op = "insert" =>
                /\ last'.ret = (e \notin Range(insts[c].entities))
                /\ asArray(insts'[c]) = IF last'.ret THEN Append(insts[c].entities, e)
                                        ELSE insts[c].entities
          /\ last'.op = "remove" =>
                /\ last'.ret = (e \in Range(insts[c].entities))
                /\ asArray(insts'[c]) = SelectSeq(insts[c].entities, LAMBDA x : x # e)
          /\ (last'.op \in {"insert", "remove"} /\ ~last'.ret) => (insts' = insts /\ ents' = ents)
          /\ last'.op \in {"insert", "remove"} =>
                /\ \A d \in 1..Len(insts) : d # c => insts'[d] = insts[d]
                /\ \A d \in 1..Len(insts') :
                      LET l == insts'[d]
                      IN /\ \A i, j \in 1..Len(l.entities) : i # j => l.entities[i] # l.entities[j]
                         /\ \A x \in 1..Len(ents) : has(l, x) = (x \in Range(l.entities))
                         /\ size(l) = Cardinality(Range(l.entities))
                         /\ \A i \in 0..Len(ents) :
                               getAt(l, i) = IF i < size(l) THEN l.entities[i + 1] ELSE 0]_vars

\* C20 witness: entity 2 was removed from between 3 and 1, which keep their order
C20_Witness ==
    /\ last.op = "remove" /\ last.ret /\ last.ent = 2
    /\ insts[last.arg].entities = <<3, 1>>

\* a duplicate insert was rejected on a list of three
C20_InsertRejected ==
    /\ last.op = "insert" /\ ~last.ret
    /\ Len(insts[last.arg].entities) = 3

\* C18: the registry holds at most one live reference per name:
\* getSmartWrapper(name) returns the registered proxy while there is one and
\* otherwise constructs and registers a new proxy, distinct from every
\* earlier one; unregisterWrapper(p) removes p's association, never fails,
\* and leaves the proxies registered under other names in place.
C18_OneWrapperPerName ==
    [][/\ (last'.op = "getSmartWrapper" /\ last'.err = "none") =>
             LET name == last'.name
             IN /\ wrappers'[name] = last'.ent
                /\ proxies'[last'.ent].name = name
                /\ IF name \in DOMAIN wrappers
                   THEN last'.ent = wrappers[name] /\ proxies' = proxies
                   ELSE last'.ent > Len(proxies) /\ Len(proxies') = Len(proxies) + 1
                /\ \A n \in DOMAIN wrappers : n # name => (n \in DOMAIN wrappers' /\ wrappers'[n] = wrappers[n])
       /\ last'.op = "unregisterWrapper" =>
             /\ last'.err = "none"
             /\ \A n \in DOMAIN wrappers' : wrappers'[n] # last'.arg
             /\ \A n \in DOMAIN wrappers :
                   wrappers[n] # last'.arg => (n \in DOMAIN wrappers' /\ wrappers'[n] = wrappers[n])
             /\ proxies' = proxies]_vars

\* C18 witness: a name got a new proxy after its first one was unregistered,
\* while the other name still has the proxy it got first
C18_Witness ==
    /\ last.op = "getSmartWrapper" /\ last.err = "none"
    /\ \E p \in 1..Len(proxies) : p < last.ent /\ proxies[p].name = last.name
    /\ \E n \in DOMAIN wrappers : n # last.name /\ wrappers[n] < last.ent

\* an unknown or already removed proxy was unregistered while others are registered
C18_UnknownUnregistered ==
    /\ last.op = "unregisterWrapper"
    /\ \A n \in DOMAIN wrappers : wrappers[n] # last.arg
    /\ Cardinality(DOMAIN wrappers) = 2

\* C19: one scene is active at a time and it has an instance map:
\* getActiveScene() is "default" initially and afterwards the argument of the
\* most recent switchScene; no other call changes it; switchScene(name) with
\* the active scene's name changes nothing and get returns the same instances.
C19_ActiveScene ==
    [][/\ getActiveScene(World) \in DOMAIN sceneCollections
       /\ (getActiveScene(World) \in DOMAIN sceneCollections)'
       /\ last.op = "init" => getActiveScene(World) = "default"
       /\ IF last'.op = "switchScene"
          THEN getActiveScene(World)' = last'.name[1]
          ELSE getActiveScene(World)' = getActiveScene(World)
       /\ (last'.op = "switchScene" /\ last'.name[1] = getActiveScene(World)) =>
             /\ UNCHANGED <<collectionTemplates, sceneCollections, activeScene, insts, ents>>
             /\ \A n \in {<<"C">>, <<"a", "C">>} : get(World, n)' = get(World, n)]_vars

\* C19 witness: switchScene named the active scene, a scene other than the
\* default one in which a registered template has no instance yet
C19_Witness ==
    /\ last.op = "switchScene" /\ last.visit = "same" /\ activeScene = "level1"
    /\ \E n \in DOMAIN collectionTemplates : n \notin DOMAIN sceneCollections[activeScene]
    /\ \E n \in DOMAIN sceneCollections[activeScene] : insts[sceneCollections[activeScene][n]].entities # <<>>

\* C21: the changed flag is false on a new instance, true after a successful
\* insert, a successful remove or a sort, and left as it was by an insert of
\* a present entity or a remove of an absent one.
C21_ChangedFlag ==
    [][/\ last.op = "init" => \A c \in 1..Len(insts) : ~changed(insts[c])
       /\ (last'.op \in {"insert", "remove"} /\ last'.ret) => changed(insts'[last'.arg])
       /\ last'.op = "sort" => changed(insts'[last'.arg])
       /\ (last'.op \in {"insert", "remove"} /\ ~last'.ret) =>
             changed(insts'[last'.arg]) = changed(insts[last'.arg])]_vars

\* C22: when a system throws during a tick, execute catches the error, sets
\* paused and does not count the frame; in every later invocation of
\* execute, the animation frame already requested included, no system runs.
C22_ThrowPauses ==
    [][last'.op \in {"execute", "frame"} =>
         /\ last'.err = "none"
         /\ tick'.sysThrew => (kernox'.paused /\ kernox'.frame = kernox.frame)
         /\ (tick.sysThrew \/ tick.thrownBefore) =>
               /\ \A i \in 1..Len(tick'.events) : ~SeqHas(Systems, tick'.events[i])
               /\ kernox'.paused
               /\ kernox'.frame = kernox.frame]_vars

C22_Witness ==
    /\ last.op = "frame"
    /\ tick.thrownBefore
    /\ SeqHas(tick.log, "RenderSystem")
    /\ kernox.paused

\* C23: "__start" is dispatched exactly once in the life of the application:
\* during the first invocation of execute, before any system runs, and in
\* no later invocation.
C23_StartOnce ==
    /\ tick.count = 0 => tick.log = <<>>
    /\ tick.count > 0 =>
          /\ tick.log # <<>>
          /\ tick.log[1] = "__start"
          /\ \A i \in 2..Len(tick.log) : tick.log[i] # "__start"
    /\ tick.count > 1 => ~SeqHas(tick.events, "__start")
    /\ kernox.started = (tick.count > 0)

C23_Witness ==
    /\ tick.count = MaxTicks
    /\ tick.log[1] = "__start"
    /\ Len(tick.log) > MaxTicks
    /\ tick.events # <<>>

\* C24: a system with a context resolves a bare name R to "<context>.R" and
\* uses a two-segment name as given, for collections and for events: the
\* collection registered under that full name is the one returned, whatever
\* other addons registered, and a name not registered under it fails with an
\* error about the full name.
C24_Full(context, name) == IF Len(name) = 1 THEN <<context>> \o name ELSE name

C24_OwnAddonMissing ==
    /\ last.op = "getCollection"
    /\ last.context = "a"
    /\ last.name = <<"C">>
    /\ last.err = "not_registered"
    /\ last.resource = <<"a", "C">>
    /\ <<"b", "C">> \in DOMAIN collectionTemplates

\* C25: an entity in use that is contained in the instance the active scene
\* holds under the name C has C in its membership set, whatever sequence of
\* addEntityTo, removeEntityFrom, create, sendToRest and switchScene came before.
C25_ContainedIsLinked ==
    \A e \in Live : \A n \in DOMAIN sceneCollections[activeScene] :
        has(insts[sceneCollections[activeScene][n]], e) => SeqHas(ents[e].colls, n)

\* C26: after create(T) the membership set of the entity is exactly the set
\* of collection names of the schema, each qualified with the namespace of T
\* when T was given as ns.Base and unqualified otherwise; no other name is in it.
C26_MembershipAfterCreate ==
    Returned =>
        LET context == IF Len(last.name) = 2 THEN last.name[1] ELSE ""
            names == ProtoOf(last.name).collections
        IN Range(ents[last.ent].colls) = {Qualify(context, names[i]) : i \in 1..Len(names)}

\* C27: sendToRest(e) completes without error for every entity returned by
\* create, also one created through a qualified type name and also when two
\* namespaces have registered collections of the same class name.
C27_SendToRestCompletes ==
    last.op = "sendToRest" => last.err = "none"

\* C28: no entity occurs more than once in a pool, also when sendToRest is
\* called twice on the same entity.
C28_PoolHasNoDuplicates ==
    \A t \in DOMAIN pools : \A i, j \in 1..Len(pools[t]) : i # j => pools[t][i] # pools[t][j]

\* C29: the type names that resolve to one prototype share one pool: a
\* create finds the entities retired under any of these names and recycles
\* one of them.
C29_Key(type) == IF type \in DOMAIN types THEN type ELSE resolveTypeNamespace(World, type).key

C29_OnePoolPerPrototype ==
    [][(last'.op = "create" /\ last'.err = "none") =>
         LET waiting == {e \in 1..Len(ents) :
                            \E t \in DOMAIN pools : /\ SeqHas(pools[t], e)
                                                    /\ C29_Key(t) = C29_Key(last'.name)}
         IN waiting # {} => last'.ent \in waiting]_vars

\* C30: use creates an instance of the new template in the active scene
\* exactly when that scene is "default"; in another scene it creates none,
\* and the first get of the registered name in a scene creates one empty
\* instance in that scene and in no other.
C30_OneNew(name) ==
    /\ Len(insts') = Len(insts) + 1
    /\ SubSeq(insts', 1, Len(insts)) = insts
    /\ insts'[Len(insts')] = NewArrayList(collectionTemplates'[name])
    /\ sceneCollections' = [sceneCollections EXCEPT
                               ![activeScene] = MapSet(@, name, Len(insts'))]

C30_EagerOnlyInDefault ==
    [][/\ (last'.op = "use" /\ last'.err = "none") =>
             IF activeScene = "default" THEN C30_OneNew(last'.name)
             ELSE UNCHANGED <<insts, sceneCollections>>
       /\ (/\ last'.op = "get"
           /\ last'.name \in DOMAIN collectionTemplates
           /\ last'.name \notin DOMAIN sceneCollections[activeScene]) =>
             /\ last'.err = "none"
             /\ C30_OneNew(last'.name)
             /\ last'.ent = Len(insts')]_vars

\* C31: create(T, params) overwrites an attribute with params[k] for exactly
\* the keys k the entity already has that do not begin with an underscore;
\* keys of params the entity does not have are ignored and never added.
C31_ParamsApplied ==
    [][(last'.op = "create" /\ last'.err = "none") =>
         LET e == last'.ent
             had == (DOMAIN ProtoOf(last'.name).attributes) \cup
                    (IF last'.recycled THEN {k \in DOMAIN ents[e].attrs : StartsWithUnderscore(k)} ELSE {})
         IN \A k \in DOMAIN last'.params :
               /\ (k \in had /\ ~StartsWithUnderscore(k)) => ents'[e].attrs[k] = last'.params[k]
               /\ (k \in had /\ StartsWithUnderscore(k)) => ents'[e].attrs[k] = ents[e].attrs[k]
               /\ k \notin had => k \notin DOMAIN ents'[e].attrs]_vars

\* C32: create with a bare type name that is registered under more than one
\* namespace raises the ambiguity error for that name without allocating an
\* id, popping a pool or touching a collection or an entity; create with the
\* qualified name succeeds in the same state.
C32_Homes(type) == {i \in 1..Len(Namespaces) : Qualify(Namespaces[i], type) \in DOMAIN types}

C33_LongNames ==
    /\ (last.op \in {"getCollection", "attachToEvent"} /\ Len(last.name) > 2) =>
          last.resource = last.name
    /\ (Returned /\ Len(last.name) > 2) =>
          LET names == ProtoOf(last.name).collections
          IN \A i \in 1..Len(names) :
                SeqHas(ents[last.ent].colls, Qualify(last.name[1], names[i]))

\* C34: a proxy is observationally equivalent to the instance it is bound
\* to: insert and remove through the proxy mutate that instance and return
\* its result, and has, size, get, asArray, filter, iteration and changed
\* return what the instance returns, also after the instance was mutated
\* directly.
C34_ProxyEquivalent ==
    [][/\ \A p \in 1..Len(proxies') :
             LET c == insts'[proxies'[p].collection]
             IN /\ \A e \in 1..Len(ents) : proxyHas(proxies', p, insts', e) = has(c, e)
                /\ proxySize(proxies', p, insts') = size(c)
                /\ \A i \in 0..Len(ents) : proxyGet(proxies', p, insts', i) = getAt(c, i)
                /\ proxyAsArray(proxies', p, insts') = asArray(c)
                /\ \A crit \in SUBSET (1..Len(ents)) :
                      proxyFilter(proxies', p, insts', crit) = filter(c, crit)
                /\ proxyIterate(proxies', p, insts') = iterate(c)
                /\ proxyChanged(proxies', p, insts') = changed(c)
       /\ last'.op = "proxyInsert" =>
             LET c == proxies[last'.arg].collection
             IN /\ insts' = insert(World, c, last'.ent).insts
                /\ last'.ret = insertReturns(World, c, last'.ent)
                /\ proxies'[last'.arg].collection = c
       /\ last'.op = "proxyRemove" =>
             LET c == proxies[last'.arg].collection
             IN /\ insts' = remove(World, c, last'.ent).insts
                /\ last'.ret = removeReturns(World, c, last'.ent)
                /\ proxies'[last'.arg].collection = c]_vars

\* C34 witness: the bound instance was mutated directly and the flag the
\* proxy copied at its last refresh is out of date
C34_Witness ==
    /\ last.op = "insert" /\ last.ret
    /\ \E p \in 1..Len(proxies) :
          /\ proxies[p].collection = last.arg
          /\ proxies[p].changed # insts[last.arg].changed
          /\ proxies[p].updates > 0

\* C35: notifyWrappers(name, inst) rebinds exactly the live reference
\* registered under name to inst and invokes its update callback once,
\* leaves every other reference as it was, and is not an error when no
\* reference is registered under name.
C35_NotifyWrappers ==
    [][last'.op = "notifyWrappers" =>
         /\ last'.err = "none"
         /\ Len(proxies') = Len(proxies)
         /\ \A p \in 1..Len(proxies) :
               IF last'.name \in DOMAIN wrappers /\ wrappers[last'.name] = p
               THEN /\ proxies'[p].collection = last'.ent
                    /\ proxies'[p].updates = proxies[p].updates + 1
                    /\ proxies'[p].name = proxies[p].name
                    /\ proxyChanged(proxies', p, insts') = changed(insts'[last'.ent])
               ELSE proxies'[p] = proxies[p]
         /\ UNCHANGED <<wrappers, insts, sceneCollections, activeScene>>]_vars

\* C35 witness: two names have a reference, one was notified of an instance
\* the other is not bound to
C35_Witness ==
    /\ last.op = "notifyWrappers"
    /\ last.name = <<"C">>
    /\ {<<"C">>, <<"a", "C">>} \subseteq DOMAIN wrappers
    /\ proxies[wrappers[<<"C">>]].collection = last.ent
    /\ proxies[wrappers[<<"a", "C">>]].collection # last.ent
    /\ proxies[wrappers[<<"C">>]].updates > 0

C35_NobodyListening ==
    /\ last.op = "notifyWrappers"
    /\ last.name \notin DOMAIN wrappers
    /\ proxies # <<>>

\* C36: the stored schema is self-contained over the whole inheritance
\* graph: its attribute keys are those of the child and of all its
\* transitive ancestors, every value comes from the child if the child has
\* the key and from an ancestor otherwise, and its collections are the union
\* over the child and all transitive ancestors.
RECURSIVE C36_Ancestors(_)
C36_Ancestors(schema) ==
    UNION {{schema.inherits[i]} \cup C36_Ancestors(schema.inherits[i]) : i \in 1..Len(schema.inherits)}

C36_SelfContained ==
    (last.op = "prototype" /\ last.err = "none") =>
        LET c == last.schema
            anc == C36_Ancestors(c)
            eff == types[last.name]
        IN /\ DOMAIN eff.attributes = DOMAIN c.attributes \cup UNION {DOMAIN a.attributes : a \in anc}
           /\ \A k \in DOMAIN eff.attributes :
                 IF k \in DOMAIN c.attributes THEN eff.attributes[k] = c.attributes[k]
                 ELSE \E a \in anc : k \in DOMAIN a.attributes /\ eff.attributes[k] = a.attributes[k]
           /\ Range(eff.collections) = Range(c.collections) \cup UNION {Range(a.collections) : a \in anc}

\* C36 witness: the child {z:1} of a parent {y:0} whose own parents bring
\* x, z and w has all four keys and keeps its own z
C36_Witness ==
    /\ last.op = "prototype" /\ last.err = "none"
    /\ last.schema.attributes = [z |-> 1]
    /\ Cardinality(C36_Ancestors(last.schema)) = 3
    /\ types[last.name].attributes = [w |-> 7, x |-> 7, y |-> 0, z |-> 1]
    /\ <<"B">> \in Range(types[last.name].collections)

\* C37: the deep copy reproduces the value at every attribute path of the
\* prototype: every object or array attribute of a created entity has the
\* full contents of the prototype's, also when the prototype holds the same
\* object under two keys.
C37_CopyIsComplete ==
    Returned =>
        LET proto == ProtoOf(last.name)
        IN \A k \in DOMAIN proto.attributes :
              IF IsObject(k) THEN objs[ents[last.ent].attrs[k]] = objs[proto.attributes[k]]
              ELSE ents[last.ent].attrs[k] = proto.attributes[k]

\* C38: the deep copy made by create, by reset and by prototype registration
\* terminates for every finite attribute graph, reference cycles included:
\* every deepAssign call that has begun returns.
C38_DeepAssignTerminates == (call.stack # <<>>) ~> (call.stack = <<>>)

\* the copy of a graph whose objects 1 and 2 refer to each other has returned
C38_Witness ==
    /\ call.op \in {"create", "resetEntityState", "prototype"}
    /\ call.stack = <<>>
    /\ call.graph[1]["a"] = 2
    /\ call.graph[2]["b"] = 1

\* C39: prototype(schema) terminates for every finite inherits graph, also
\* when a schema is its own direct or transitive ancestor: every call that
\* has entered the inheritance loop leaves it and registers the type.
C39_PrototypeTerminates == (call.op = "loop") ~> (call.op = "registered")

====
